---- MODULE Spec2Model ----
(***************************************************************************)
(* Session-tracking and aggregation engine (TrackingService over a Prisma  *)
(* store).  Every store call of the service is one atomic step of the      *)
(* database; the JavaScript between two awaits is one step of the caller.  *)
(* Time is counted in minutes.  ret holds the outcome of the call that     *)
(* returned last.                                                          *)
(***************************************************************************)
EXTENDS Integers, Sequences, FiniteSets, TLC

VARIABLES sessions, dailyStats, now, pc, loc, ret,
          secret, apiToken, enableCORS, userCounts, bot, task

vars == <<sessions, dailyStats, now, pc, loc, ret, secret, apiToken,
          enableCORS, userCounts, bot, task>>

\* the state outside the tracking store: the configured STATS_SECRET and
\* BACKEND_API_TOKEN, and the Discord bot with its own user_counts table
edgeVars == <<secret, apiToken, enableCORS, userCounts, bot, task>>

\* the state of the tracking service and its callers
coreVars == <<sessions, dailyStats, pc, loc, ret>>

(* ------------------------------ bounds --------------------------------- *)

MaxSessions == 3
MaxSweepSessions == 2
MaxSeqSessions == 2
MaxExpireSessions == 2
MaxQuerySessions == 2
ExpireNow == 16
MaxTime == 2
MaxInactive == 1
MaxHttpSessions == 2
MaxRows == 2
MaxTimers == 3

Procs == {"p1", "p2"}
Users == {"u1", "u2"}
IpAddresses == {"10.0.0.1"}
UserAgents == { <<"i", "P", "h", "o", "n", "e">>, <<"W", "i", "n">> }
SweepUsers == {"u1"}
SweepAgents == { <<"W", "i", "n">> }
BotTasks == {"t1", "t2"}
UserCountInputs == {-1, 0, 3}
TimeZoneOffsets == {0, 420, -300}
CleanupZoneOffsets == {0, -300}
Connections == {"bot", "api"}

(* ---------------------------- constants -------------------------------- *)

MinutesPerDay == 1440
DefaultInactiveMinutes == 15

StatsSweepMinutes == 15
CronSweepMinutes == 15
SecondsPerMinute == 60
SecondsPerHour == 3600
RetentionDays == 30
CleanupMinuteOfDay == 120

None == [none |-> TRUE]

\* a JavaScript value that is either undefined or a string
Undefined == [defined |-> FALSE, text |-> ""]
Str(s) == [defined |-> TRUE, text |-> s]
Falsy(v) == ~v.defined \/ v.text = ""

StatsKeys == { Undefined, Str(""), Str("k1"), Str("k2") }
Secrets == { Undefined, Str(""), Str("k1") }

(* ----------------------------- helpers --------------------------------- *)

UpperCase == <<"A","B","C","D","E","F","G","H","I","J","K","L","M",
               "N","O","P","Q","R","S","T","U","V","W","X","Y","Z">>
LowerCase == <<"a","b","c","d","e","f","g","h","i","j","k","l","m",
               "n","o","p","q","r","s","t","u","v","w","x","y","z">>

ToLower(c) ==
  IF \E i \in 1..26 : UpperCase[i] = c
  THEN LowerCase[CHOOSE i \in 1..26 : UpperCase[i] = c]
  ELSE c

MobilePatterns ==
  { <<"m","o","b","i","l","e">>, <<"a","n","d","r","o","i","d">>,
    <<"i","p","h","o","n","e">>, <<"i","p","a","d">>,
    <<"t","a","b","l","e","t">>, <<"p","h","o","n","e">> }

ContainsIgnoreCase(s, pat) ==
  \E k \in 0..(Len(s) - Len(pat)) :
     \A j \in 1..Len(pat) : ToLower(s[k + j]) = pat[j]

\* variant: the regular expression lacks the i flag
ContainsExactCase(s, pat) ==
  \E k \in 0..(Len(s) - Len(pat)) :
     \A j \in 1..Len(pat) : s[k + j] = pat[j]

detectDeviceCaseSensitive(userAgent) ==
  IF \E pat \in MobilePatterns : ContainsExactCase(userAgent, pat)
  THEN "mobile" ELSE "desktop"

detectDevice(userAgent) ==
  IF \E pat \in MobilePatterns : ContainsIgnoreCase(userAgent, pat)
  THEN "mobile" ELSE "desktop"

\* a device hint as the caller passes it: a string, or undefined when the
\* request carries none
MissingHint == [defined |-> FALSE, text |-> <<>>]
Hint(s) == [defined |-> TRUE, text |-> s]

\* line 13: the default parameter userAgent = ''
userAgentOrDefault(hint) == IF hint.defined THEN hint.text ELSE <<>>

getTodayDate(t) == t \div MinutesPerDay

Includes(s, x) == \E i \in 1..Len(s) : s[i] = x


(* ------------------------- process bookkeeping ------------------------- *)

NoLoc ==
  [ userId |-> "", userAgent |-> <<>>, ipAddress |-> "", deviceType |-> "",
    today |-> -1, loginAt |-> -1, lastSeen |-> -1, existing |-> None,
    cutoff |-> -1, online |-> None, statsKey |-> Undefined, swept |-> {},
    hint |-> MissingHint ]

NoRet == [ op |-> "", status |-> "", count |-> -1, stats |-> None ]

DbSteps ==
  { "login_deactivate", "login_insert", "login_find", "login_stat",
    "logout_update", "heartbeat_update", "expire_update",
    "stats_sessions", "stats_daily",
    "ctl_expire", "ctl_sessions", "ctl_daily", "cron_expire" }

OpOf(step) ==
  CASE step \in {"login_deactivate", "login_loginAt", "login_lastSeen",
                 "login_insert", "login_find", "login_stat"} -> "recordLogin"
    [] step = "logout_update" -> "recordLogout"
    [] step = "heartbeat_update" -> "heartbeat"
    [] step = "expire_update" -> "expireInactiveSessions"
    [] step \in {"stats_sessions", "stats_daily", "stats_return"} -> "getStats"
    [] step \in {"ctl_guard", "ctl_expire", "ctl_stats", "ctl_sessions",
                 "ctl_daily", "ctl_return"}
         -> "GET /stats"
    [] step = "cron_expire" -> "handleExpireSessions"
    [] OTHER -> ""

Returned(p, status, count, stats) ==
  /\ pc' = [pc EXCEPT ![p] = "idle"]
  /\ loc' = [loc EXCEPT ![p] = NoLoc]
  /\ ret' = [ op |-> OpOf(pc[p]), status |-> status,
              count |-> count, stats |-> stats ]
  /\ UNCHANGED edgeVars

Goto(p, step, newLoc) ==
  /\ pc' = [pc EXCEPT ![p] = step]
  /\ loc' = [loc EXCEPT ![p] = newLoc]
  /\ UNCHANGED <<ret, edgeVars>>

PendingCreates ==
  Cardinality({ p \in Procs :
     pc[p] \in {"login_deactivate", "login_loginAt", "login_lastSeen",
                "login_insert"} })

(* ------------------------------ store calls ---------------------------- *)

\* variant: the where clause tests isActive: false, so nothing is closed
closeInactiveSessions(S, userId) ==
  [ i \in 1..Len(S) |->
      IF S[i].userId = userId /\ ~S[i].isActive
      THEN [S[i] EXCEPT !.isActive = FALSE] ELSE S[i] ]

\* userSession.updateMany({where: {userId, isActive: true}, data: {isActive: false}})
closeActiveSessions(S, userId) ==
  [ i \in 1..Len(S) |->
      IF S[i].userId = userId /\ S[i].isActive
      THEN [S[i] EXCEPT !.isActive = FALSE] ELSE S[i] ]

\* variant: only the first matching session is updated
logoutFirstSession(S, userId) ==
  LET hits == { i \in 1..Len(S) : S[i].userId = userId /\ S[i].isActive } IN
  [ i \in 1..Len(S) |->
      IF hits # {} /\ i = CHOOSE k \in hits : \A m \in hits : k <= m
      THEN [S[i] EXCEPT !.isActive = FALSE] ELSE S[i] ]

\* recordLogout: userSession.updateMany({where: {userId, isActive: true}, ...})
logoutSessions(S, userId) ==
  [ i \in 1..Len(S) |->
      IF S[i].userId = userId /\ S[i].isActive
      THEN [S[i] EXCEPT !.isActive = FALSE] ELSE S[i] ]

\* variant of createSession that reuses the row of the user's closed Session
createSessionReusingRow(S, l) ==
  LET new == [ userId |-> l.userId, deviceType |-> l.deviceType,
               ipAddress |-> l.ipAddress, userAgent |-> l.userAgent,
               isActive |-> TRUE, loginAt |-> l.loginAt,
               lastSeen |-> l.lastSeen ]
      closed == { i \in 1..Len(S) : S[i].userId = l.userId /\ ~S[i].isActive }
  IN IF closed = {} THEN Append(S, new)
     ELSE [ S EXCEPT ![CHOOSE i \in closed : \A j \in closed : i <= j] = new ]

\* userSession.create({data: {...}})
createSession(S, l) ==
  Append(S, [ userId |-> l.userId, deviceType |-> l.deviceType,
              ipAddress |-> l.ipAddress, userAgent |-> l.userAgent,
              isActive |-> TRUE, loginAt |-> l.loginAt,
              lastSeen |-> l.lastSeen ])

\* dailyStat.findUnique({where: {date}})
findUniqueStat(D, date) ==
  IF \E r \in D : r.date = date
  THEN CHOOSE r \in D : r.date = date
  ELSE None

\* variant: the desktop counter is never incremented
updateStatNoDesktop(D, date, userId, deviceType, alreadyCounted) ==
  { IF r.date # date THEN r
    ELSE [ r EXCEPT
             !.totalLogins = @ + 1,
             !.mobileLogins = IF deviceType = "mobile" THEN @ + 1 ELSE @,
             !.uniqueUserIds = IF alreadyCounted THEN @
                               ELSE Append(@, userId) ]
    : r \in D }

\* dailyStat.update({where: {date}, data: {increment..., push...}})
updateStat(D, date, userId, deviceType, alreadyCounted) ==
  { IF r.date # date THEN r
    ELSE [ r EXCEPT
             !.totalLogins = @ + 1,
             !.mobileLogins = IF deviceType = "mobile" THEN @ + 1 ELSE @,
             !.desktopLogins = IF deviceType = "desktop" THEN @ + 1 ELSE @,
             !.uniqueUserIds = IF alreadyCounted THEN @
                               ELSE Append(@, userId) ]
    : r \in D }

\* variant: the row is created with its counters at zero
createStatUncounted(D, date, userId, deviceType) ==
  D \cup { [ date |-> date, totalLogins |-> 0, mobileLogins |-> 0,
             desktopLogins |-> 0, uniqueUserIds |-> <<userId>> ] }

\* dailyStat.create({data: {...}})
createStat(D, date, userId, deviceType) ==
  D \cup { [ date |-> date, totalLogins |-> 1,
             mobileLogins |-> IF deviceType = "mobile" THEN 1 ELSE 0,
             desktopLogins |-> IF deviceType = "desktop" THEN 1 ELSE 0,
             uniqueUserIds |-> <<userId>> ] }

\* variant: the where clause lacks isActive and the data sets isActive: true
heartbeatRevive(S, userId, ts) ==
  [ i \in 1..Len(S) |->
      IF S[i].userId = userId
      THEN [S[i] EXCEPT !.lastSeen = ts, !.isActive = TRUE] ELSE S[i] ]

\* userSession.updateMany({where: {userId, isActive: true}, data: {lastSeen}})
heartbeatUpdate(S, userId, ts) ==
  [ i \in 1..Len(S) |->
      IF S[i].userId = userId /\ S[i].isActive
      THEN [S[i] EXCEPT !.lastSeen = ts] ELSE S[i] ]

\* variant: lte in place of lt
isStaleInclusive(s, cutoff) == s.isActive /\ s.lastSeen <= cutoff

\* the where clause {isActive: true, lastSeen: {lt: cutoff}}
isStale(s, cutoff) == s.isActive /\ s.lastSeen < cutoff

\* variant: the where clause lacks the lastSeen condition
expireUpdateAllActive(S, cutoff) ==
  [ i \in 1..Len(S) |->
      IF S[i].isActive
      THEN [S[i] EXCEPT !.isActive = FALSE] ELSE S[i] ]

\* userSession.updateMany({where: {isActive: true, lastSeen: {lt: cutoff}}, ...})
expireUpdate(S, cutoff) ==
  [ i \in 1..Len(S) |->
      IF isStale(S[i], cutoff)
      THEN [S[i] EXCEPT !.isActive = FALSE] ELSE S[i] ]

\* variant: result.count counts every session last seen before the cutoff,
\* closed ones included
expireCountClosedToo(S, cutoff) ==
  Cardinality({ i \in 1..Len(S) : S[i].lastSeen < cutoff })

expireCount(S, cutoff) ==
  Cardinality({ i \in 1..Len(S) : isStale(S[i], cutoff) })

\* variant: findMany without the where clause, every session is counted online
onlineCountsAll(S) ==
  LET active == { i \in 1..Len(S) : S[i].isActive } IN
  [ currentOnline |-> Len(S),
    currentMobile |-> Cardinality({ i \in active : S[i].deviceType = "mobile" }),
    currentDesktop |-> Cardinality({ i \in active : S[i].deviceType = "desktop" }) ]

\* userSession.findMany({where: {isActive: true}}) and the three counts
onlineCounts(S) ==
  LET active == { i \in 1..Len(S) : S[i].isActive } IN
  [ currentOnline |-> Cardinality(active),
    currentMobile |-> Cardinality({ i \in active : S[i].deviceType = "mobile" }),
    currentDesktop |-> Cardinality({ i \in active : S[i].deviceType = "desktop" }) ]

\* variant: todayDesktop is filled from mobileLogins
snapshotDesktopFromMobile(online, dailyStat, today, t) ==
  [ currentOnline |-> online.currentOnline,
    currentMobile |-> online.currentMobile,
    currentDesktop |-> online.currentDesktop,
    todayLogins |-> IF dailyStat = None THEN 0 ELSE dailyStat.totalLogins,
    todayMobile |-> IF dailyStat = None THEN 0 ELSE dailyStat.mobileLogins,
    todayDesktop |-> IF dailyStat = None THEN 0 ELSE dailyStat.mobileLogins,
    todayUniqueUsers |-> IF dailyStat = None THEN 0
                         ELSE Len(dailyStat.uniqueUserIds),
    date |-> today, updatedAt |-> t ]

\* the snapshot object returned by getStats
snapshot(online, dailyStat, today, t) ==
  [ currentOnline |-> online.currentOnline,
    currentMobile |-> online.currentMobile,
    currentDesktop |-> online.currentDesktop,
    todayLogins |-> IF dailyStat = None THEN 0 ELSE dailyStat.totalLogins,
    todayMobile |-> IF dailyStat = None THEN 0 ELSE dailyStat.mobileLogins,
    todayDesktop |-> IF dailyStat = None THEN 0 ELSE dailyStat.desktopLogins,
    todayUniqueUsers |-> IF dailyStat = None THEN 0
                         ELSE Len(dailyStat.uniqueUserIds),
    date |-> today, updatedAt |-> t ]


(* ------------------------------ Discord bot ---------------------------- *)

\* the activity shown by the bot; no activity is set after construction
NoStatus == [ text |-> "", groups |-> <<>>, age |-> -1, unit |-> "" ]

NoDataStatus ==
  [ text |-> "No data available", groups |-> <<>>, age |-> -1, unit |-> "" ]

\* userCount.toLocaleString(): the digits in groups of three
RECURSIVE Groups(_)
Groups(n) ==
  IF n < 1000 THEN <<n>> ELSE Append(Groups(n \div 1000), n % 1000)

\* formatStatusText at clock t: "<count> users online (<age><unit> ago)"
formatStatusText(userCount, timestamp, t) ==
  LET timeDiff == SecondsPerMinute * (t - timestamp) IN
  [ text |-> "users online", groups |-> Groups(userCount),
    age |-> IF timeDiff < SecondsPerMinute THEN timeDiff
            ELSE IF timeDiff < SecondsPerHour THEN timeDiff \div SecondsPerMinute
            ELSE timeDiff \div SecondsPerHour,
    unit |-> IF timeDiff < SecondsPerMinute THEN "s"
             ELSE IF timeDiff < SecondsPerHour THEN "m" ELSE "h" ]

\* new Date(latestData.timestamp), line 153: the table's timestamp is the UTC
\* wall clock written without a zone, and the text is read as the wall clock
\* of the process's time zone (utcOffset minutes ahead of UTC)
parseTimestamp(timestamp, utcOffset) == timestamp - utcOffset

\* setBotStatus: nothing is set while the client is not ready
setBotStatus(b, status) ==
  IF b.isReady THEN [b EXCEPT !.status = status] ELSE b

\* variant of LatestRow that returns the first inserted of the rows with the
\* greatest timestamp
LatestRowOldestOfTies(R) ==
  CHOOSE i \in 1..Len(R) :
    \A j \in 1..Len(R) :
      \/ R[j].timestamp < R[i].timestamp
      \/ R[j].timestamp = R[i].timestamp /\ j >= i

\* SELECT ... ORDER BY timestamp DESC LIMIT 1 (database.js lines 118-131) over
\* the index idx_user_counts_timestamp (line 76): SQLite walks the index from
\* its end, where the entries of equal timestamp stand in the order of their
\* rowid, so the row returned is the one with the greatest timestamp and,
\* among the rows of that timestamp, the one inserted last.  R is in the
\* order of insertion
LatestRow(R) ==
  CHOOSE i \in 1..Len(R) :
    \A j \in 1..Len(R) :
      \/ R[j].timestamp < R[i].timestamp
      \/ R[j].timestamp = R[i].timestamp /\ j <= i

\* DELETE FROM user_counts WHERE timestamp < datetime('now', '-30 days')
cleanupOldRecords(R, t) ==
  SelectSeq(R, LAMBDA r : ~(r.timestamp < t - RetentionDays * MinutesPerDay))

\* cron '0 2 * * *': the first instant after t at which the wall clock of
\* the process's time zone shows 02:00
NextCleanup(t, utcOffset) ==
  LET wait == (CleanupMinuteOfDay - (t + utcOffset)) % MinutesPerDay
  IN t + (IF wait = 0 THEN MinutesPerDay ELSE wait)

\* Number.isInteger(userCount) && userCount >= 0
ValidUserCount(n) == n \in Int /\ n >= 0

\* this.statusUpdateTimer = null
NoTimer == 0

\* variant of startStatusUpdateLoop without the clearInterval
startLoopWithoutClear(b) ==
  [ b EXCEPT !.timers = @ \cup {b.nextTimer},
             !.statusUpdateTimer = b.nextTimer,
             !.nextTimer = @ + 1 ]

\* startStatusUpdateLoop, lines 118-126: the timer held is cleared, a new
\* interval timer is scheduled and held.  timers are the interval timers
\* the runtime has scheduled, nextTimer is the next fresh timer
startStatusUpdateLoop(b) ==
  [ b EXCEPT !.timers = (@ \ {b.statusUpdateTimer}) \cup {b.nextTimer},
             !.statusUpdateTimer = b.nextTimer,
             !.nextTimer = @ + 1 ]

\* close, lines 334-337: the timer held is cleared and forgotten
clearStatusUpdateTimer(b) ==
  [ b EXCEPT !.timers = @ \ {b.statusUpdateTimer},
             !.statusUpdateTimer = NoTimer ]

\* result is what the task's last call reported: "ok", or "failed" when it
\* logged an error
NoTask ==
  [ pc |-> "idle", latest |-> None, userCount |-> -1, result |-> "",
    req |-> None ]

\* the handler after construction and initialize(): destroyed is the Discord
\* client having been destroyed, closed the database connection having been
\* closed, utcOffset the time zone the process runs in, due the connections
\* whose cleanup job is due and has not run yet, cleanups the connections on
\* which a cleanup job's DELETE is waiting to be run
NewBot ==
  [ isReady |-> FALSE, isUpdatingStatus |-> FALSE, lastUserCount |-> 0,
    statusUpdateTimer |-> NoTimer, timers |-> {}, nextTimer |-> 1,
    destroyed |-> FALSE, closed |-> FALSE, utcOffset |-> 0, due |-> {},
    cleanups |-> {},
    status |-> NoStatus ]

BotInit ==
  /\ userCounts = <<>>
  /\ bot = NewBot
  /\ task = [t \in BotTasks |-> NoTask]

(* -------------------------------- Init --------------------------------- *)

Init ==
  /\ sessions = <<>>
  /\ dailyStats = {}
  /\ now = 0
  /\ pc = [p \in Procs |-> "idle"]
  /\ loc = [p \in Procs |-> NoLoc]
  /\ ret = NoRet
  /\ secret = Undefined
  /\ apiToken = Undefined
  /\ enableCORS = FALSE
  /\ BotInit

\* the bot's process started in one of the time zones
ZoneInitIn(zones) ==
  /\ sessions = <<>>
  /\ dailyStats = {}
  /\ now = 0
  /\ pc = [p \in Procs |-> "idle"]
  /\ loc = [p \in Procs |-> NoLoc]
  /\ ret = NoRet
  /\ secret = Undefined
  /\ apiToken = Undefined
  /\ enableCORS = FALSE
  /\ userCounts = <<>>
  /\ bot \in { [NewBot EXCEPT !.utcOffset = z] : z \in zones }
  /\ task = [t \in BotTasks |-> NoTask]

ZoneInit == ZoneInitIn(TimeZoneOffsets)

CleanupInit == ZoneInitIn(CleanupZoneOffsets)

(* ------------------------------ the clock ------------------------------ *)

Tick ==
  /\ now < MaxTime
  /\ now' = now + 1
  /\ UNCHANGED <<coreVars, edgeVars>>

(* ----------------------------- recordLogin ----------------------------- *)

\* lines 25-30: classify the device, compute the date key, issue updateMany
RecordLoginCall(p, maxSessions, users, agents) ==
  /\ pc[p] = "idle"
  /\ Len(sessions) + PendingCreates < maxSessions
  /\ \E u \in users, ua \in agents, ip \in IpAddresses :
       Goto(p, "login_deactivate",
            [NoLoc EXCEPT !.userId = u, !.userAgent = ua, !.ipAddress = ip,
                          !.deviceType = detectDevice(ua),
                          !.today = getTodayDate(now)])
  /\ UNCHANGED <<sessions, dailyStats, now>>

\* variant of LoginDeactivate whose updateMany has no userId in its where
LoginDeactivateAllUsers(p) ==
  /\ pc[p] = "login_deactivate"
  /\ sessions' = [ i \in 1..Len(sessions) |->
                     [sessions[i] EXCEPT !.isActive = FALSE] ]
  /\ Goto(p, "login_loginAt", loc[p])
  /\ UNCHANGED <<dailyStats, now>>

\* lines 30-33: the store deactivates the user's active sessions
LoginDeactivate(p) ==
  /\ pc[p] = "login_deactivate"
  /\ sessions' = closeActiveSessions(sessions, loc[p].userId)
  /\ Goto(p, "login_loginAt", loc[p])
  /\ UNCHANGED <<dailyStats, now>>

\* line 43: the caller reads the clock for loginAt
LoginReadLoginAt(p) ==
  /\ pc[p] = "login_loginAt"
  /\ Goto(p, "login_lastSeen", [loc[p] EXCEPT !.loginAt = now])
  /\ UNCHANGED <<sessions, dailyStats, now>>

\* lines 44, 36: the caller reads the clock for lastSeen and issues create
LoginReadLastSeen(p) ==
  /\ pc[p] = "login_lastSeen"
  /\ Goto(p, "login_insert", [loc[p] EXCEPT !.lastSeen = now])
  /\ UNCHANGED <<sessions, dailyStats, now>>

\* lines 36-46: the store inserts the new session
LoginInsert(p) ==
  /\ pc[p] = "login_insert"
  /\ sessions' = createSession(sessions, loc[p])
  /\ Goto(p, "login_find", loc[p])
  /\ UNCHANGED <<dailyStats, now>>

\* lines 49-51: the store reads the DailyStat of the date key
LoginFind(p) ==
  /\ pc[p] = "login_find"
  /\ Goto(p, "login_stat",
          [loc[p] EXCEPT !.existing = findUniqueStat(dailyStats, loc[p].today)])
  /\ UNCHANGED <<sessions, dailyStats, now>>

\* lines 53-76: update the record that was found, or create it.  date is the
\* unique key of dailyStat (it is the findUnique key): create rejects when a
\* record of the date exists, update rejects when none does.
LoginStat(p) ==
  /\ pc[p] = "login_stat"
  /\ LET l == loc[p]
         present == \E r \in dailyStats : r.date = l.today
     IN IF l.existing # None
        THEN IF present
             THEN /\ dailyStats' =
                       updateStat(dailyStats, l.today, l.userId, l.deviceType,
                                  Includes(l.existing.uniqueUserIds, l.userId))
                  /\ Returned(p, "ok", -1, None)
             ELSE /\ UNCHANGED dailyStats
                  /\ Returned(p, "error", -1, None)
        ELSE IF present
             THEN /\ UNCHANGED dailyStats
                  /\ Returned(p, "error", -1, None)
             ELSE /\ dailyStats' =
                       createStat(dailyStats, l.today, l.userId, l.deviceType)
                  /\ Returned(p, "ok", -1, None)
  /\ UNCHANGED <<sessions, now>>

(* ----------------------------- recordLogout ---------------------------- *)

\* lines 81-82: issue updateMany
RecordLogoutCall(p, users) ==
  /\ pc[p] = "idle"
  /\ \E u \in users : Goto(p, "logout_update", [NoLoc EXCEPT !.userId = u])
  /\ UNCHANGED <<sessions, dailyStats, now>>

\* variant: a single-record update, which rejects when no row matches
LogoutUpdateRequired(p) ==
  /\ pc[p] = "logout_update"
  /\ sessions' = logoutSessions(sessions, loc[p].userId)
  /\ IF \A i \in 1..Len(sessions) :
          ~(sessions[i].userId = loc[p].userId /\ sessions[i].isActive)
     THEN Returned(p, "error", -1, None)
     ELSE Returned(p, "ok", -1, None)
  /\ UNCHANGED <<dailyStats, now>>

\* lines 82-86: the store deactivates the user's active sessions
LogoutUpdate(p) ==
  /\ pc[p] = "logout_update"
  /\ sessions' = logoutSessions(sessions, loc[p].userId)
  /\ Returned(p, "ok", -1, None)
  /\ UNCHANGED <<dailyStats, now>>

(* ------------------------------ heartbeat ------------------------------ *)

\* lines 91-94: read the clock, issue updateMany
HeartbeatCall(p, users) ==
  /\ pc[p] = "idle"
  /\ \E u \in users :
       Goto(p, "heartbeat_update", [NoLoc EXCEPT !.userId = u, !.lastSeen = now])
  /\ UNCHANGED <<sessions, dailyStats, now>>

\* variant: the where clause lacks userId, every active session is refreshed
HeartbeatUpdateAllUsers(p) ==
  /\ pc[p] = "heartbeat_update"
  /\ sessions' = [ i \in 1..Len(sessions) |->
                     IF sessions[i].isActive
                     THEN [sessions[i] EXCEPT !.lastSeen = loc[p].lastSeen]
                     ELSE sessions[i] ]
  /\ Returned(p, "ok", -1, None)
  /\ UNCHANGED <<dailyStats, now>>

\* lines 92-96: the store writes lastSeen on the user's active sessions
HeartbeatUpdate(p) ==
  /\ pc[p] = "heartbeat_update"
  /\ sessions' = heartbeatUpdate(sessions, loc[p].userId, loc[p].lastSeen)
  /\ Returned(p, "ok", -1, None)
  /\ UNCHANGED <<dailyStats, now>>

(* ----------------------- expireInactiveSessions ------------------------ *)

\* lines 101-103: compute the cutoff from the clock (in minutes here, in
\* milliseconds in the source), issue updateMany
ExpireCall(p, inactiveMinutes) ==
  /\ pc[p] = "idle"
  /\ Goto(p, "expire_update", [NoLoc EXCEPT !.cutoff = now - inactiveMinutes])
  /\ UNCHANGED <<sessions, dailyStats, now>>

\* lines 103-107: the store runs the conditional bulk update
ExpireUpdate(p) ==
  /\ pc[p] = "expire_update"
  /\ sessions' = expireUpdate(sessions, loc[p].cutoff)
  /\ Returned(p, "ok", expireCount(sessions, loc[p].cutoff), None)
  /\ UNCHANGED <<dailyStats, now>>

(* ------------------------------- getStats ------------------------------ *)

\* lines 112-116: compute the date key, issue findMany
GetStatsCall(p) ==
  /\ pc[p] = "idle"
  /\ Goto(p, "stats_sessions", [NoLoc EXCEPT !.today = getTodayDate(now)])
  /\ UNCHANGED <<sessions, dailyStats, now>>

\* lines 116-123: the store reads the active sessions, the caller counts them
StatsSessions(p) ==
  /\ pc[p] = "stats_sessions"
  /\ Goto(p, "stats_daily", [loc[p] EXCEPT !.online = onlineCounts(sessions)])
  /\ UNCHANGED <<sessions, dailyStats, now>>

\* variant: the query upserts today's DailyStat instead of reading it
StatsDailyUpsert(p) ==
  /\ pc[p] = "stats_daily"
  /\ dailyStats' =
       IF findUniqueStat(dailyStats, loc[p].today) = None
       THEN dailyStats \cup
              { [ date |-> loc[p].today, totalLogins |-> 0, mobileLogins |-> 0,
                  desktopLogins |-> 0, uniqueUserIds |-> <<>> ] }
       ELSE dailyStats
  /\ Goto(p, "stats_return",
          [loc[p] EXCEPT !.existing = findUniqueStat(dailyStats, loc[p].today)])
  /\ UNCHANGED <<sessions, now>>

\* lines 126-128: the store reads today's DailyStat
StatsDaily(p) ==
  /\ pc[p] = "stats_daily"
  /\ Goto(p, "stats_return",
          [loc[p] EXCEPT !.existing = findUniqueStat(dailyStats, loc[p].today)])
  /\ UNCHANGED <<sessions, dailyStats, now>>

\* lines 130-140: after the await the snapshot is built from the two answers,
\* stamped with the clock as it is then, and returned
StatsReturn(p) ==
  /\ pc[p] = "stats_return"
  /\ Returned(p, "ok", -1,
              snapshot(loc[p].online, loc[p].existing, loc[p].today, now))
  /\ UNCHANGED <<sessions, dailyStats, now>>

(* --------------------------- store unavailable ------------------------- *)

\* a store call rejects: the await throws and the method rejects
StoreFails(p) ==
  /\ pc[p] \in DbSteps
  /\ Returned(p, "error", -1, None)
  /\ UNCHANGED <<sessions, dailyStats, now>>

(* ------------------------- GET /stats controller ----------------------- *)

\* variant: the guard compares only, so an absent key equals an unset secret
unauthorizedCompareOnly(statsKey, sec) == statsKey # sec

\* line 15: !statsKey || statsKey !== secret
unauthorized(statsKey, sec) == Falsy(statsKey) \/ statsKey # sec

\* line 12: a request arrives carrying its x-stats-key header
StatsRequest(p, statsKey) ==
  /\ pc[p] = "idle"
  /\ Goto(p, "ctl_guard", [NoLoc EXCEPT !.statsKey = statsKey])
  /\ UNCHANGED <<sessions, dailyStats, now>>

\* lines 13-19: reject the request, or call expireInactiveSessions(15), which
\* computes the cutoff and issues updateMany
CtlGuard(p) ==
  /\ pc[p] = "ctl_guard"
  /\ IF unauthorized(loc[p].statsKey, secret)
     THEN Returned(p, "unauthorized", -1, None)
     ELSE Goto(p, "ctl_expire",
               [loc[p] EXCEPT !.cutoff = now - StatsSweepMinutes])
  /\ UNCHANGED <<sessions, dailyStats, now>>

\* variant: the controller goes on to getStats without sweeping
CtlExpireSkipped(p) ==
  /\ pc[p] = "ctl_expire"
  /\ Goto(p, "ctl_stats",
          [loc[p] EXCEPT
             !.swept = { i \in 1..Len(sessions) : isStale(sessions[i], loc[p].cutoff) }])
  /\ UNCHANGED <<sessions, dailyStats, now>>

\* line 19: the store runs the sweep's update (swept records the rows it
\* changed)
CtlExpire(p) ==
  /\ pc[p] = "ctl_expire"
  /\ sessions' = expireUpdate(sessions, loc[p].cutoff)
  /\ Goto(p, "ctl_stats",
          [loc[p] EXCEPT
             !.swept = { i \in 1..Len(sessions) : isStale(sessions[i], loc[p].cutoff) }])
  /\ UNCHANGED <<dailyStats, now>>

\* line 20 and service lines 112-116: after the await the controller calls
\* getStats, which computes the date key from the clock as it is then and
\* issues findMany
CtlGetStats(p) ==
  /\ pc[p] = "ctl_stats"
  /\ Goto(p, "ctl_sessions", [loc[p] EXCEPT !.today = getTodayDate(now)])
  /\ UNCHANGED <<sessions, dailyStats, now>>

\* line 20: the store reads the active sessions
CtlSessions(p) ==
  /\ pc[p] = "ctl_sessions"
  /\ Goto(p, "ctl_daily", [loc[p] EXCEPT !.online = onlineCounts(sessions)])
  /\ UNCHANGED <<sessions, dailyStats, now>>

\* service lines 126-128: the store reads today's DailyStat
CtlDaily(p) ==
  /\ pc[p] = "ctl_daily"
  /\ Goto(p, "ctl_return",
          [loc[p] EXCEPT !.existing = findUniqueStat(dailyStats, loc[p].today)])
  /\ UNCHANGED <<sessions, dailyStats, now>>

\* service lines 130-140 and controller lines 20-22: after the await the
\* snapshot is stamped with the clock as it is then and the response sent
CtlReturn(p) ==
  /\ pc[p] = "ctl_return"
  /\ Returned(p, "ok", -1,
              snapshot(loc[p].online, loc[p].existing, loc[p].today, now))
  /\ UNCHANGED <<sessions, dailyStats, now>>

(* ------------------------------- the sweeper --------------------------- *)

\* variant of CronTick that remembers a failed tick and widens the next sweep
CronTickMakeUp(p) ==
  /\ pc[p] = "idle"
  /\ Goto(p, "cron_expire",
          [NoLoc EXCEPT !.cutoff =
             IF ret.op = "handleExpireSessions" /\ ret.status = "error"
             THEN now
             ELSE now - CronSweepMinutes])
  /\ UNCHANGED <<sessions, dailyStats, now>>

\* cron lines 14-16: the schedule fires, expireInactiveSessions(15) computes
\* the cutoff and issues updateMany
CronTick(p) ==
  /\ pc[p] = "idle"
  /\ Goto(p, "cron_expire", [NoLoc EXCEPT !.cutoff = now - CronSweepMinutes])
  /\ UNCHANGED <<sessions, dailyStats, now>>

\* cron lines 16-19: the store runs the update, the handler logs the count
\* when it is positive and completes
CronExpire(p) ==
  /\ pc[p] = "cron_expire"
  /\ sessions' = expireUpdate(sessions, loc[p].cutoff)
  /\ Returned(p, "ok", expireCount(sessions, loc[p].cutoff), None)
  /\ UNCHANGED <<dailyStats, now>>

(* ---------------------------- bot: updateStatus ------------------------ *)

\* lines 70-88: the client is ready: the loop is started and updateStatus is
\* entered (lines 134-143), which issues the read of the latest count
BotReady(t) ==
  /\ ~bot.isReady
  /\ bot.nextTimer <= MaxTimers
  /\ task[t].pc = "idle"
  /\ bot' = [startStatusUpdateLoop(bot) EXCEPT !.isReady = TRUE,
                                              !.isUpdatingStatus = TRUE]
  /\ task' = [task EXCEPT ![t] = [NoTask EXCEPT !.pc = "us_read"]]
  /\ UNCHANGED <<coreVars, now, secret, apiToken, enableCORS, userCounts>>

\* lines 122-126 and 134-143: a timer tick enters updateStatus when the bot
\* is ready and no update is running
TimerTick(t) ==
  /\ bot.timers # {}
  /\ bot.isReady
  /\ ~bot.isUpdatingStatus
  /\ task[t].pc = "idle"
  /\ bot' = [bot EXCEPT !.isUpdatingStatus = TRUE]
  /\ task' = [task EXCEPT ![t] = [NoTask EXCEPT !.pc = "us_read"]]
  /\ UNCHANGED <<coreVars, now, secret, apiToken, enableCORS, userCounts>>

\* database.js lines 118-131: the database answers the read
ReadLatest(t) ==
  /\ task[t].pc = "us_read"
  /\ ~bot.closed
  /\ task' = [task EXCEPT
                ![t].pc = "us_set",
                ![t].latest = IF userCounts = <<>> THEN None
                              ELSE userCounts[LatestRow(userCounts)]]
  /\ UNCHANGED <<coreVars, now, secret, apiToken, enableCORS, userCounts, bot>>

\* variant of ReadFails without the finally block: the flag stays set
ReadFailsKeepsFlag(t) ==
  /\ task[t].pc = "us_read"
  /\ bot' = bot
  /\ task' = [task EXCEPT ![t] = [NoTask EXCEPT !.result = "failed"]]
  /\ UNCHANGED <<coreVars, now, secret, apiToken, enableCORS, userCounts>>

\* lines 169-173: the read rejects: the error is logged, the flag is reset
ReadFails(t) ==
  /\ task[t].pc = "us_read"
  /\ bot' = [bot EXCEPT !.isUpdatingStatus = FALSE]
  /\ task' = [task EXCEPT ![t] = [NoTask EXCEPT !.result = "failed"]]
  /\ UNCHANGED <<coreVars, now, secret, apiToken, enableCORS, userCounts>>

\* lines 145-173: the status is set from the row that was read
UpdateStatusSet(t) ==
  /\ task[t].pc = "us_set"
  /\ bot' =
       IF task[t].latest = None
       THEN [setBotStatus(bot, NoDataStatus) EXCEPT
               !.lastUserCount = 0, !.isUpdatingStatus = FALSE]
       ELSE [setBotStatus(bot,
               formatStatusText(task[t].latest.user_count,
                                parseTimestamp(task[t].latest.timestamp,
                                               bot.utcOffset), now))
               EXCEPT !.lastUserCount = task[t].latest.user_count,
                      !.isUpdatingStatus = FALSE]
  /\ task' = [task EXCEPT ![t] = [NoTask EXCEPT !.result = "ok"]]
  /\ UNCHANGED <<coreVars, now, secret, apiToken, enableCORS, userCounts>>

(* ------------------------ bot: handleUserCountUpdate ------------------- *)

\* lines 224-232: validate the count, issue the insert
HandleUserCountUpdate(t, userCount) ==
  /\ task[t].pc = "idle"
  /\ Len(userCounts) < MaxRows
  /\ task' = [task EXCEPT ![t] =
                IF ValidUserCount(userCount)
                THEN [NoTask EXCEPT !.pc = "hu_insert", !.userCount = userCount]
                ELSE [NoTask EXCEPT !.result = "failed"]]
  /\ UNCHANGED <<coreVars, now, secret, apiToken, enableCORS, userCounts, bot>>

\* database.js lines 97-113: the row is inserted with the current timestamp
InsertRow(t) ==
  /\ task[t].pc = "hu_insert"
  /\ ~bot.closed
  /\ userCounts' = Append(userCounts,
                          [user_count |-> task[t].userCount, timestamp |-> now])
  /\ task' = [task EXCEPT ![t].pc = "hu_set"]
  /\ UNCHANGED <<coreVars, now, secret, apiToken, enableCORS, bot>>

\* lines 243-246: the insert rejects, the call reports success: false
InsertFails(t) ==
  /\ task[t].pc = "hu_insert"
  /\ task' = [task EXCEPT ![t] = [NoTask EXCEPT !.result = "failed"]]
  /\ UNCHANGED <<coreVars, now, secret, apiToken, enableCORS, userCounts, bot>>

\* lines 235-241: the status is set from the pushed count and the call
\* returns { success: true, userCount, timestamp }
HandleSet(t) ==
  /\ task[t].pc = "hu_set"
  /\ bot' = setBotStatus(bot, formatStatusText(task[t].userCount, now, now))
  /\ task' = [task EXCEPT ![t] = [NoTask EXCEPT !.result = "ok",
                                                !.userCount = task[t].userCount]]
  /\ UNCHANGED <<coreVars, now, secret, apiToken, enableCORS, userCounts>>

(* ------------------------- bot: scheduled cleanup ---------------------- *)

\* database.js lines 331-337, cron '0 2 * * *': the clock reaches 02:00, that
\* night or RetentionDays nights later, and the job of each DatabaseHandler
\* in conns (the bot's own, and the API server's when the bot runs inside
\* it, api-server.js lines 40-45) is due.  On the nights in between no
\* stored row is older than 30 days, so the jobs of those nights delete
\* nothing
CleanupHour(conns) ==
  /\ now <= MaxTime
  /\ \E days \in {0, RetentionDays} :
       now' = NextCleanup(now, bot.utcOffset) + days * MinutesPerDay
  /\ bot' = [bot EXCEPT !.due = @ \cup conns]
  /\ UNCHANGED <<coreVars, secret, apiToken, enableCORS, userCounts, task>>

\* database.js lines 333-336 and 284-298: the cron callback of the
\* DatabaseHandler of connection conn runs on its own: it issues its DELETE
\* and returns to the event loop
CleanupFire(conn) ==
  /\ conn \in bot.due
  /\ bot' = [bot EXCEPT !.due = @ \ {conn}, !.cleanups = @ \cup {conn}]
  /\ UNCHANGED <<coreVars, now, secret, apiToken, enableCORS, userCounts, task>>

\* database.js lines 286-298: SQLite runs the DELETE of the job on connection
\* conn.  The bot's connection must be open; the API server's is closed only
\* as the process exits (api-server.js lines 385-390)
CleanupDelete(conn) ==
  /\ conn \in bot.cleanups
  /\ conn = "bot" => ~bot.closed
  /\ userCounts' = cleanupOldRecords(userCounts, now)
  /\ bot' = [bot EXCEPT !.cleanups = @ \ {conn}]
  /\ UNCHANGED <<coreVars, now, secret, apiToken, enableCORS, task>>

\* database.js lines 289-291 and 299-301: the DELETE fails (on a closed
\* connection it always does), the error is logged and no row is deleted
CleanupFails(conn) ==
  /\ conn \in bot.cleanups
  /\ bot' = [bot EXCEPT !.cleanups = @ \ {conn}]
  /\ UNCHANGED <<coreVars, now, secret, apiToken, enableCORS, userCounts, task>>

(* ---------------------- bot: restarting and closing -------------------- *)

\* lines 117-129: a call of the public method startStatusUpdateLoop() on
\* the handler.  The program's only call of it is the one in the ready
\* handler (line 85, part of BotReady); the call on its own is what a
\* statement about any sequence of startStatusUpdateLoop and close calls
\* ranges over
StartLoop ==
  /\ bot.nextTimer <= MaxTimers
  /\ bot' = startStatusUpdateLoop(bot)
  /\ UNCHANGED <<coreVars, now, secret, apiToken, enableCORS, userCounts, task>>

\* lines 329-349: close clears the timer; a client that is ready and not
\* destroyed is asked to disconnect, otherwise the database is asked to close
Close(t) ==
  /\ task[t].pc = "idle"
  /\ bot' = clearStatusUpdateTimer(bot)
  /\ task' = [task EXCEPT ![t] =
                [NoTask EXCEPT !.pc = IF bot.isReady /\ ~bot.destroyed
                                     THEN "cl_destroy" ELSE "cl_database"]]
  /\ UNCHANGED <<coreVars, now, secret, apiToken, enableCORS, userCounts>>

\* lines 341-349: the client has disconnected, the database is asked to close
DestroyDone(t) ==
  /\ task[t].pc = "cl_destroy"
  /\ bot' = [bot EXCEPT !.destroyed = TRUE]
  /\ task' = [task EXCEPT ![t].pc = "cl_database"]
  /\ UNCHANGED <<coreVars, now, secret, apiToken, enableCORS, userCounts>>

\* lines 341 and 352-354: destroy rejects, the error is logged and the
\* database is not asked to close; the client may be left in either state
DestroyFails(t) ==
  /\ task[t].pc = "cl_destroy"
  /\ \E d \in {bot.destroyed, TRUE} : bot' = [bot EXCEPT !.destroyed = d]
  /\ task' = [task EXCEPT ![t] = [NoTask EXCEPT !.result = "failed"]]
  /\ UNCHANGED <<coreVars, now, secret, apiToken, enableCORS, userCounts>>

\* lines 347-349 and database.js lines 347-362: the connection is closed; a
\* connection that is already closed answers with an error, which is logged
CloseDatabase(t) ==
  /\ task[t].pc = "cl_database"
  /\ bot' = [bot EXCEPT !.closed = TRUE]
  /\ task' = [task EXCEPT ![t] =
                [NoTask EXCEPT !.result = IF bot.closed THEN "failed" ELSE "ok"]]
  /\ UNCHANGED <<coreVars, now, secret, apiToken, enableCORS, userCounts>>

\* database.js lines 350-353 and discord-bot.js lines 352-354: the database
\* fails to close an open connection, which stays open; the error is logged
CloseDatabaseFails(t) ==
  /\ task[t].pc = "cl_database"
  /\ ~bot.closed
  /\ task' = [task EXCEPT ![t] = [NoTask EXCEPT !.result = "failed"]]
  /\ UNCHANGED <<coreVars, now, secret, apiToken, enableCORS, userCounts, bot>>

(* ----------------------------- detectDevice ---------------------------- *)

\* device hints: words that hold one of the patterns in some letter case,
\* words that just miss one, each alone or inside a longer text
DeviceWords ==
  { <<"m","o","b","i","l","e">>, <<"M","o","b","i","l","e">>,
    <<"a","n","d","r","o","i","d">>, <<"A","N","D","R","O","I","D">>,
    <<"i","p","h","o","n","e">>, <<"i","P","h","o","n","e">>,
    <<"i","p","a","d">>, <<"i","P","a","d">>,
    <<"t","a","b","l","e","t">>, <<"T","A","B","L","E","T">>,
    <<"p","h","o","n","e">>, <<"P","h","O","n","E">>,
    <<"m","o","b","i","l">>, <<"n","d","r","o","i","d">>,
    <<"i","p","h","o","n">>, <<"i","p","a">>, <<"t","a","b","l","e">>,
    <<"h","o","n","e">>, <<"i","p"," ","a","d">>,
    <<"W","i","n">>, <<>> }

DevicePrefixes == { <<>>, <<"x">>, <<"i">> }
DeviceSuffixes == { <<>>, <<"/">>, <<"t">> }

DeviceHints ==
  {MissingHint} \cup
  { Hint(a \o w \o b) : a \in DevicePrefixes, w \in DeviceWords, b \in DeviceSuffixes }

\* line 26: recordLogin classifies the hint it was given
DetectDevice(p, hint) ==
  /\ pc[p] = "idle"
  /\ loc' = [loc EXCEPT ![p] =
               [NoLoc EXCEPT !.hint = hint,
                             !.deviceType = detectDevice(userAgentOrDefault(hint))]]
  /\ UNCHANGED <<sessions, dailyStats, now, pc, ret, edgeVars>>

(* ------------------------------ API server ----------------------------- *)

ApiTokens == { Undefined, Str(""), Str("k1") }
ApiKeyValues == { Undefined, Str(""), Str("k1"), Str("k2") }
AuthorizationValues == { Undefined, Str("k1"), Str("k2") }
ApiCounts == {-1, 3}
ApiMethods == { "GET", "POST", "OPTIONS" }
ApiRoutes == { "/api/k3i/user-count", "/api/k3i/test" }

\* a request under /api/k3i: its method and path, its two token headers,
\* whether express.json can parse its body, and the userCount of the body.
\* Only a POST to the count route has its userCount looked at, so the other
\* requests carry one value of it
ApiRequests ==
  { r \in [ method : ApiMethods, route : ApiRoutes,
            apiKey : ApiKeyValues, authorization : AuthorizationValues,
            bodyOk : BOOLEAN, userCount : ApiCounts ] :
      (r.method = "POST" /\ r.route = "/api/k3i/user-count") \/ r.userCount = -1 }

\* line 82: req.headers['x-api-key'] || req.headers['authorization']
requestToken(req) ==
  IF Falsy(req.apiKey) THEN req.authorization ELSE req.apiKey

\* variant: only a token that is present is compared
tokenRejectedIfPresent(req, tok) ==
  /\ ~Falsy(tok)
  /\ ~Falsy(requestToken(req))
  /\ requestToken(req) # tok

\* lines 81-89: the request is answered 401
tokenRejected(req, tok) ==
  /\ ~Falsy(tok)
  /\ (Falsy(requestToken(req)) \/ requestToken(req) # tok)

\* the request arrives
ApiArrive(t, req) ==
  /\ task[t].pc = "idle"
  /\ Len(userCounts) < MaxRows
  /\ task' = [task EXCEPT ![t] = [NoTask EXCEPT !.pc = "api_mw", !.req = req]]
  /\ UNCHANGED <<coreVars, now, secret, apiToken, enableCORS, userCounts, bot>>

\* lines 60-91, 155-175, 315-341 and discord-bot.js lines 224-232: the
\* middleware chain in the order of its registration, and the route handler
\* up to its first await.  With ENABLE_CORS the cors middleware (lines 60-66)
\* answers every OPTIONS request 204 itself, before anything else sees it.  A
\* body that does not parse goes from express.json (line 69) to the error
\* handler (lines 334-341), which answers 500.  Then comes the token check
\* (lines 80-91), then the routes: POST /api/k3i/user-count (lines 155-175),
\* GET /api/k3i/test (lines 315-322), and for every other method and path
\* the 404 handler (lines 325-331)
ApiHandle(t) ==
  /\ task[t].pc = "api_mw"
  /\ LET req == task[t].req IN
     task' = [task EXCEPT ![t] =
       IF enableCORS /\ req.method = "OPTIONS"
       THEN [NoTask EXCEPT !.result = "204"]
       ELSE IF ~req.bodyOk THEN [NoTask EXCEPT !.result = "500"]
       ELSE IF tokenRejected(req, apiToken) THEN [NoTask EXCEPT !.result = "401"]
       ELSE IF req.method = "POST" /\ req.route = "/api/k3i/user-count"
       THEN IF ~ValidUserCount(req.userCount)
            THEN [NoTask EXCEPT !.result = "400"]
            ELSE [task[t] EXCEPT !.pc = "hu_insert", !.userCount = req.userCount]
       ELSE IF req.method = "GET" /\ req.route = "/api/k3i/test"
       THEN [NoTask EXCEPT !.result = "200"]
       ELSE [NoTask EXCEPT !.result = "404"]]
  /\ UNCHANGED <<coreVars, now, secret, apiToken, enableCORS, userCounts, bot>>

(* --------------------- user counts as JSON values ---------------------- *)

\* the userCount of a JSON body: absent (undefined), null, a string, or the
\* number halves / 2
JsUndefined == [ type |-> "undefined", halves |-> 0, text |-> "" ]
JsNull == [ type |-> "null", halves |-> 0, text |-> "" ]
JsString(s) == [ type |-> "string", halves |-> 0, text |-> s ]
JsNumber(h) == [ type |-> "number", halves |-> h, text |-> "" ]

CountValues ==
  { JsUndefined, JsNull, JsString(""), JsString("5"),
    JsNumber(-2), JsNumber(0), JsNumber(3), JsNumber(6) }

CountRoutes == { "/api/k3i/user-count", "/api/k3i/manual-count" }

\* !userCount
JsFalsy(v) ==
  \/ v.type \in {"undefined", "null"}
  \/ v.type = "string" /\ v.text = ""
  \/ v.type = "number" /\ v.halves = 0

\* Number.isInteger(userCount)
isInteger(v) == v.type = "number" /\ v.halves % 2 = 0

\* variant of countMissing that also takes 0 for a missing count
countMissingOrZero(v) == JsFalsy(v)

\* api-server.js lines 160 and 204: !userCount && userCount !== 0
countMissing(v) == JsFalsy(v) /\ ~(v.type = "number" /\ v.halves = 0)

\* api-server.js lines 167 and 211, discord-bot.js line 227:
\* !Number.isInteger(userCount) || userCount < 0
countInvalid(v) == ~isInteger(v) \/ v.halves < 0

\* a POST to one of the two count routes arrives with a parsed JSON body
CountArrive(t, route, v) ==
  /\ task[t].pc = "idle"
  /\ Len(userCounts) < MaxRows
  /\ task' = [task EXCEPT ![t] =
                [NoTask EXCEPT !.pc = "cnt_route",
                               !.req = [route |-> route, userCount |-> v]]]
  /\ UNCHANGED <<coreVars, now, secret, apiToken, enableCORS, userCounts, bot>>

\* api-server.js lines 155-175 and 200-219, discord-bot.js lines 224-232: the
\* route answers 400, or calls the handler, which validates again and issues
\* the insert
CountRoute(t) ==
  /\ task[t].pc = "cnt_route"
  /\ LET v == task[t].req.userCount IN
     task' = [task EXCEPT ![t] =
       IF countMissing(v) \/ countInvalid(v)
       THEN [task[t] EXCEPT !.pc = "idle", !.result = "400"]
       ELSE [task[t] EXCEPT !.pc = "hu_insert", !.userCount = v.halves \div 2]]
  /\ UNCHANGED <<coreVars, now, secret, apiToken, enableCORS, userCounts, bot>>

\* discord-bot.js lines 224-232 and 243-246: handleUserCountUpdate called
\* with any value: it throws inside its try and returns success: false, or
\* issues the insert
HandleCountValue(t, v) ==
  /\ task[t].pc = "idle"
  /\ Len(userCounts) < MaxRows
  /\ task' = [task EXCEPT ![t] =
       IF countInvalid(v)
       THEN [NoTask EXCEPT !.result = "failed",
                           !.req = [route |-> "handler", userCount |-> v]]
       ELSE [NoTask EXCEPT !.pc = "hu_insert", !.userCount = v.halves \div 2,
                           !.req = [route |-> "handler", userCount |-> v]]]
  /\ UNCHANGED <<coreVars, now, secret, apiToken, enableCORS, userCounts, bot>>

(* ---------------------------- specifications --------------------------- *)

LoginStep(p) ==
  \/ LoginDeactivate(p)
  \/ LoginReadLoginAt(p)
  \/ LoginReadLastSeen(p)
  \/ LoginInsert(p)
  \/ LoginFind(p)
  \/ LoginStat(p)

\* concurrent logins and logouts, the clock standing still
LoginNext ==
  \E p \in Procs :
    \/ RecordLoginCall(p, MaxSessions, Users, UserAgents)
    \/ LoginStep(p)
    \/ RecordLogoutCall(p, Users)
    \/ LogoutUpdate(p)

SpecLogin == Init /\ [][LoginNext]_vars

\* concurrent logins, logouts, heartbeats and sweeps under a running clock
SweepNext ==
  \/ Tick
  \/ \E p \in Procs :
       \/ RecordLoginCall(p, MaxSweepSessions, SweepUsers, SweepAgents)
       \/ LoginStep(p)
       \/ RecordLogoutCall(p, SweepUsers)
       \/ LogoutUpdate(p)
       \/ HeartbeatCall(p, SweepUsers)
       \/ HeartbeatUpdate(p)
       \/ \E m \in 1..MaxInactive : ExpireCall(p, m)
       \/ ExpireUpdate(p)

SpecSweep == Init /\ [][SweepNext]_vars

\* one caller at a time: logins and queries, store calls may fail
SeqNext ==
  \/ Tick
  \/ \E p \in {"p1"} :
       \/ RecordLoginCall(p, MaxSeqSessions, Users, UserAgents)
       \/ LoginStep(p)
       \/ GetStatsCall(p)
       \/ StatsSessions(p)
       \/ StatsDaily(p)
       \/ StatsReturn(p)
       \/ StoreFails(p)

SpecSeq == Init /\ [][SeqNext]_vars

\* sweeps with the default threshold over stores that hold sessions last seen
\* around the cutoff
StaleOffsets ==
  { DefaultInactiveMinutes + 1, DefaultInactiveMinutes, DefaultInactiveMinutes - 1 }

ExpireSessions ==
  [ userId : Users, deviceType : {"desktop"}, ipAddress : IpAddresses,
    userAgent : SweepAgents, isActive : BOOLEAN, loginAt : {0},
    lastSeen : { ExpireNow - d : d \in StaleOffsets } ]

ExpireInit ==
  /\ now = ExpireNow
  /\ sessions \in UNION { [1..n -> ExpireSessions] : n \in 0..MaxExpireSessions }
  /\ dailyStats = {}
  /\ pc = [p \in Procs |-> "idle"]
  /\ loc = [p \in Procs |-> NoLoc]
  /\ ret = NoRet
  /\ secret = Undefined
  /\ apiToken = Undefined
  /\ enableCORS = FALSE
  /\ BotInit

ExpireNext ==
  \E p \in Procs :
    \/ ExpireCall(p, DefaultInactiveMinutes)
    \/ ExpireUpdate(p)
    \/ HeartbeatCall(p, Users)
    \/ HeartbeatUpdate(p)

SpecExpire == ExpireInit /\ [][ExpireNext]_vars

\* concurrent logins, logouts and queries, the clock standing still
QueryNext ==
  \E p \in Procs :
    \/ RecordLoginCall(p, MaxQuerySessions, Users, UserAgents)
    \/ LoginStep(p)
    \/ RecordLogoutCall(p, Users)
    \/ LogoutUpdate(p)
    \/ GetStatsCall(p)
    \/ StatsSessions(p)
    \/ StatsDaily(p)
    \/ StatsReturn(p)

SpecQuery == Init /\ [][QueryNext]_vars

\* authorized and unauthorized GET /stats requests, scheduled sweeps and
\* heartbeats over stores that hold sessions last seen on either side of the
\* cutoff; store calls may fail
HttpOffsets == { StatsSweepMinutes + 1, StatsSweepMinutes - 1 }

HttpSessions ==
  [ userId : Users, deviceType : {"desktop"}, ipAddress : IpAddresses,
    userAgent : SweepAgents, isActive : BOOLEAN, loginAt : {0},
    lastSeen : { ExpireNow - d : d \in HttpOffsets } ]

HttpInit ==
  /\ now = ExpireNow
  /\ sessions \in UNION { [1..n -> HttpSessions] : n \in 0..MaxHttpSessions }
  /\ dailyStats = {}
  /\ pc = [p \in Procs |-> "idle"]
  /\ loc = [p \in Procs |-> NoLoc]
  /\ ret = NoRet
  /\ secret \in Secrets
  /\ apiToken = Undefined
  /\ enableCORS = FALSE
  /\ BotInit

HttpNext ==
  \E p \in Procs :
    \/ \E k \in StatsKeys : StatsRequest(p, k)
    \/ CtlGuard(p)
    \/ CtlExpire(p)
    \/ CtlGetStats(p)
    \/ CtlSessions(p)
    \/ CtlDaily(p)
    \/ CtlReturn(p)
    \/ CronTick(p)
    \/ CronExpire(p)
    \/ HeartbeatCall(p, SweepUsers)
    \/ HeartbeatUpdate(p)
    \/ StoreFails(p)

SpecHttp == HttpInit /\ [][HttpNext]_vars

\* the Discord bot: pushed counts, timer-driven status updates, reads and
\* inserts that may fail, under a running clock
BotNext ==
  \/ Tick
  \/ CleanupHour({"bot"})
  \/ CleanupFire("bot")
  \/ CleanupDelete("bot")
  \/ CleanupFails("bot")
  \/ \E t \in BotTasks :
       \/ BotReady(t)
       \/ TimerTick(t)
       \/ ReadLatest(t)
       \/ ReadFails(t)
       \/ UpdateStatusSet(t)
       \/ \E n \in UserCountInputs : HandleUserCountUpdate(t, n)
       \/ InsertRow(t)
       \/ InsertFails(t)
       \/ HandleSet(t)

SpecBot == Init /\ [][BotNext]_vars

\* the classification applied to each device hint
DeviceNext == \E p \in {"p1"}, hint \in DeviceHints : DetectDevice(p, hint)

SpecDevice == Init /\ [][DeviceNext]_vars

\* requests under /api/k3i, one after another, under each configuration of
\* BACKEND_API_TOKEN and ENABLE_CORS, the bot becoming ready and showing the
\* counts
ApiInit ==
  /\ sessions = <<>>
  /\ dailyStats = {}
  /\ now = 0
  /\ pc = [p \in Procs |-> "idle"]
  /\ loc = [p \in Procs |-> NoLoc]
  /\ ret = NoRet
  /\ secret = Undefined
  /\ apiToken \in ApiTokens
  /\ enableCORS \in BOOLEAN
  /\ BotInit

ApiNext ==
  \/ \E t \in {"t1"} :
       \/ \E req \in ApiRequests : ApiArrive(t, req)
       \/ ApiHandle(t)
       \/ InsertRow(t)
       \/ InsertFails(t)
       \/ HandleSet(t)
  \/ \E t \in {"t2"} :
       \/ BotReady(t)
       \/ ReadLatest(t)
       \/ UpdateStatusSet(t)

SpecApi == ApiInit /\ [][ApiNext]_vars

(* --------------- all five core operations, two callers ----------------- *)

MaxCoreSessions == 2

CoreNext ==
  \/ Tick
  \/ \E p \in {"p1"} :
       \/ RecordLoginCall(p, MaxCoreSessions, SweepUsers, SweepAgents)
       \/ LoginStep(p)
       \/ RecordLogoutCall(p, SweepUsers)
       \/ LogoutUpdate(p)
       \/ StoreFails(p)
  \/ \E p \in {"p2"} :
       \/ HeartbeatCall(p, SweepUsers)
       \/ HeartbeatUpdate(p)
       \/ ExpireCall(p, MaxInactive)
       \/ ExpireUpdate(p)
       \/ GetStatsCall(p)
       \/ StatsSessions(p)
       \/ StatsDaily(p)
       \/ StatsReturn(p)

SpecCore == Init /\ [][CoreNext]_vars

(* ------------- one caller, the clock around a day boundary ------------- *)

MaxDayTicks == 2
MaxDaySessions == 2

\* the clock starts in the last minute of a day
DayInit ==
  /\ sessions = <<>>
  /\ dailyStats = {}
  /\ now = MinutesPerDay - 1
  /\ pc = [p \in Procs |-> "idle"]
  /\ loc = [p \in Procs |-> NoLoc]
  /\ ret = NoRet
  /\ secret = Undefined
  /\ apiToken = Undefined
  /\ enableCORS = FALSE
  /\ BotInit

DayTick ==
  /\ now < MinutesPerDay - 1 + MaxDayTicks
  /\ now' = now + 1
  /\ UNCHANGED <<coreVars, edgeVars>>

DayNext ==
  \/ DayTick
  \/ \E p \in {"p1"} :
       \/ RecordLoginCall(p, MaxDaySessions, Users, UserAgents)
       \/ LoginStep(p)
       \/ StoreFails(p)

SpecDay == DayInit /\ [][DayNext]_vars

(* ---- two users: login, logout, sweep on one caller, heartbeat on one ---- *)

MaxFrameSessions == 2

FrameNext ==
  \/ Tick
  \/ \E p \in {"p1"} :
       \/ RecordLoginCall(p, MaxFrameSessions, Users, SweepAgents)
       \/ LoginStep(p)
       \/ RecordLogoutCall(p, Users)
       \/ LogoutUpdate(p)
       \/ ExpireCall(p, MaxInactive)
       \/ ExpireUpdate(p)
  \/ \E p \in {"p2"} :
       \/ HeartbeatCall(p, SweepUsers)
       \/ HeartbeatUpdate(p)

SpecFrame == Init /\ [][FrameNext]_vars

(* ------ the bot with its timer and its database callbacks scheduled ---- *)

\* setInterval keeps firing the tick, and the callbacks of the database and
\* of the Discord client are eventually run by the event loop
BotFairness ==
  /\ SF_vars(\E t \in BotTasks : TimerTick(t))
  /\ SF_vars(\E t \in BotTasks : ReadLatest(t))
  /\ SF_vars(\E t \in BotTasks : UpdateStatusSet(t))
  /\ WF_vars(\E t \in BotTasks : InsertRow(t))
  /\ WF_vars(\E t \in BotTasks : HandleSet(t))
  /\ WF_vars(CleanupFire("bot"))
  /\ WF_vars(CleanupDelete("bot"))

\* the bot alone with one source of pushed counts (t1) and the timer-driven
\* status updates (t2)
StatusNext ==
  \/ Tick
  \/ CleanupHour({"bot"})
  \/ CleanupFire("bot")
  \/ CleanupDelete("bot")
  \/ CleanupFails("bot")
  \/ \E t \in {"t1"} :
       \/ \E n \in UserCountInputs : HandleUserCountUpdate(t, n)
       \/ InsertRow(t)
       \/ InsertFails(t)
       \/ HandleSet(t)
  \/ \E t \in {"t2"} :
       \/ BotReady(t)
       \/ TimerTick(t)
       \/ ReadLatest(t)
       \/ ReadFails(t)
       \/ UpdateStatusSet(t)

SpecBotFair == Init /\ [][StatusNext]_vars /\ BotFairness

\* pushed counts of every JSON type on both routes and on the handler itself,
\* the bot ready and showing what was stored
CountNext ==
  \E t \in BotTasks :
    \/ BotReady(t)
    \/ ReadLatest(t)
    \/ UpdateStatusSet(t)
    \/ \E route \in CountRoutes, v \in CountValues : CountArrive(t, route, v)
    \/ CountRoute(t)
    \/ \E v \in CountValues : HandleCountValue(t, v)
    \/ InsertRow(t)
    \/ InsertFails(t)
    \/ HandleSet(t)

SpecCount == ZoneInit /\ [][CountNext]_vars

\* the handler inside the API server, with startStatusUpdateLoop() and
\* close() also called on it in any order: timer ticks run updateStatus,
\* counts are pushed and the cleanup job of each of the two database
\* connections runs on its own.  The behaviours of the program are the
\* behaviours without a StartLoop step
TimerNext ==
  \/ StartLoop
  \/ CleanupHour(Connections)
  \/ \E conn \in Connections :
       \/ CleanupFire(conn)
       \/ CleanupDelete(conn)
       \/ CleanupFails(conn)
  \/ \E t \in BotTasks :
       \/ BotReady(t)
       \/ Close(t)
       \/ DestroyDone(t)
       \/ DestroyFails(t)
       \/ CloseDatabase(t)
       \/ CloseDatabaseFails(t)
       \/ TimerTick(t)
       \/ ReadLatest(t)
       \/ ReadFails(t)
       \/ UpdateStatusSet(t)
  \/ \E t \in {"t1"} :
       \/ HandleUserCountUpdate(t, 3)
       \/ InsertRow(t)
       \/ InsertFails(t)
       \/ HandleSet(t)

SpecTimer == CleanupInit /\ [][TimerNext]_vars

TypeOK ==
  /\ Len(sessions) <= MaxSessions
  /\ \A p \in Procs :
       pc[p] \in DbSteps \cup {"idle", "login_loginAt", "login_lastSeen",
                              "stats_return", "ctl_guard", "ctl_stats",
                              "ctl_return"}

(* ------------------------------ properties ----------------------------- *)

Quiescent == \A p \in Procs : pc[p] = "idle"

ActiveCount(S, u) ==
  Cardinality({ i \in 1..Len(S) : S[i].userId = u /\ S[i].isActive })

NoDuplicates(s) == \A i, j \in 1..Len(s) : s[i] = s[j] => i = j

RECURSIVE SumTotalLogins(_)
SumTotalLogins(D) ==
  IF D = {} THEN 0
  ELSE LET r == CHOOSE x \in D : TRUE
       IN r.totalLogins + SumTotalLogins(D \ {r})

MobileAgent == <<"i", "P", "h", "o", "n", "e">>
DesktopAgent == <<"W", "i", "n">>

SweepDone(p) ==
  pc[p] = "expire_update" /\ pc'[p] = "idle" /\ ret'.status = "ok"

\* C1: once every recordLogin and recordLogout call has completed, also calls
\* for the same user whose store steps interleaved, each user has at most one
\* active session.
C1_AtMostOneActive ==
  Quiescent => \A u \in Users : ActiveCount(sessions, u) <= 1

\* C2: in every reachable state every DailyStat has
\* totalLogins = mobileLogins + desktopLogins, however the find, create and
\* update steps of concurrent logins interleave.
C2_TotalIsDeviceSum ==
  \A r \in dailyStats : r.totalLogins = r.mobileLogins + r.desktopLogins

\* a login is about to write with a read that another login has overtaken
C2_Witness ==
  \E p \in Procs, r \in dailyStats :
    /\ pc[p] = "login_stat"
    /\ loc[p].existing # None
    /\ r.date = loc[p].today
    /\ r.totalLogins > loc[p].existing.totalLogins
    /\ r.mobileLogins >= 1
    /\ r.desktopLogins >= 1

\* C3: when the logins of two distinct users have both run to their end on
\* the same day, neither has failed and the day's DailyStat has totalLogins 2
\* and both users in uniqueUserIds.
C3_BothLoginsCounted ==
  ( /\ Quiescent
    /\ Len(sessions) = 2
    /\ sessions[1].userId # sessions[2].userId )
  => /\ ret.status # "error"
     /\ \E r \in dailyStats :
          /\ r.totalLogins = 2
          /\ Len(r.uniqueUserIds) = 2
          /\ Includes(r.uniqueUserIds, sessions[1].userId)
          /\ Includes(r.uniqueUserIds, sessions[2].userId)

\* C4: uniqueUserIds of a DailyStat never holds the same userId twice.
C4_UniqueUsersNoDuplicates ==
  \A r \in dailyStats : NoDuplicates(r.uniqueUserIds)

\* C5: when a sweep's conditional update executes, also with a heartbeat for
\* the same session in flight or just applied, it leaves no active session
\* whose lastSeen is before the cutoff it used, and it does not deactivate a
\* session whose lastSeen was at or after that cutoff.
C5_SweepAgainstHeartbeat ==
  [][ \A p \in Procs :
        SweepDone(p) =>
          /\ \A i \in 1..Len(sessions') :
               ~(sessions'[i].isActive /\ sessions'[i].lastSeen < loc[p].cutoff)
          /\ \A i \in 1..Len(sessions) :
               (sessions[i].isActive /\ sessions[i].lastSeen >= loc[p].cutoff)
                 => sessions'[i].isActive ]_vars

\* a sweep and a heartbeat race for a session that is stale for the sweep and
\* fresh once the heartbeat is applied
C5_Witness ==
  \E p, q \in Procs, i \in 1..Len(sessions) :
    /\ pc[p] = "expire_update"
    /\ pc[q] = "heartbeat_update"
    /\ sessions[i].isActive
    /\ sessions[i].userId = loc[q].userId
    /\ sessions[i].lastSeen < loc[p].cutoff
    /\ loc[q].lastSeen >= loc[p].cutoff

\* C6: a sweep with threshold 15 uses cutoff = now - 15 and deactivates
\* exactly the active sessions last seen before the cutoff: last seen 16
\* minutes ago is deactivated, 14 minutes ago and exactly at the cutoff are
\* not, and nothing else of any session changes.
C6_ExpiresExactlyStale ==
  [][ \A p \in Procs :
        SweepDone(p) =>
          /\ loc[p].cutoff = now - 15
          /\ Len(sessions') = Len(sessions)
          /\ \A i \in 1..Len(sessions) :
               LET s == sessions[i]
                   t == sessions'[i]
               IN /\ t = [s EXCEPT !.isActive = t.isActive]
                  /\ t.isActive <=> (s.isActive /\ ~(s.lastSeen < now - 15))
                  /\ (s.isActive /\ s.lastSeen = now - 16) => ~t.isActive
                  /\ (s.isActive /\ s.lastSeen = now - 14) => t.isActive
                  /\ (s.isActive /\ s.lastSeen = now - 15) => t.isActive ]_vars

\* a sweep has deactivated a session last seen 16 minutes ago and has kept
\* one last seen exactly at the cutoff
C6_Witness ==
  \E p \in Procs, i, j \in 1..Len(sessions) :
    /\ pc[p] = "idle"
    /\ ret.op = "expireInactiveSessions"
    /\ ret.count = 1
    /\ ~sessions[i].isActive /\ sessions[i].lastSeen = now - 16
    /\ sessions[j].isActive /\ sessions[j].lastSeen = now - 15

\* C7: for every store state and every user, recordLogout twice in a row
\* leaves the store that recordLogout once leaves.
C7_LogoutIdempotent ==
  \A u \in Users :
    logoutSessions(logoutSessions(sessions, u), u) = logoutSessions(sessions, u)

\* a logout is about to act on a user who holds two active sessions
C7_Witness ==
  \E p \in Procs :
    /\ pc[p] = "logout_update"
    /\ ActiveCount(sessions, loc[p].userId) = 2

\* C8: a session record that is inactive stays inactive in every later state.
C8_NeverReactivated ==
  [][ \A i \in 1..Len(sessions) :
        ~sessions[i].isActive
          => (i <= Len(sessions') /\ ~sessions'[i].isActive) ]_vars

\* a user's closed session and the new record of the user's later login, with
\* a heartbeat of that user completed
C8_Witness ==
  \E i, j \in 1..Len(sessions) :
    /\ i < j
    /\ sessions[i].userId = sessions[j].userId
    /\ ~sessions[i].isActive
    /\ sessions[j].isActive
    /\ sessions[j].lastSeen > sessions[j].loginAt
    /\ ret.op = "heartbeat"

\* C9: a recordLogin that fails on a store call leaves no partial result:
\* when it has returned its error, every session record is matched by a
\* DailyStat count.
C9_FailedLoginLeavesNothing ==
  (Quiescent /\ ret.op = "recordLogin" /\ ret.status = "error")
    => Len(sessions) = SumTotalLogins(dailyStats)

FirstLoginStore ==
  /\ Len(sessions) = 1
  /\ sessions[1].userId = "u1"
  /\ sessions[1].userAgent = MobileAgent

SecondLoginStore ==
  /\ Len(sessions) = 2
  /\ sessions[1].userId = "u1"
  /\ sessions[1].userAgent = MobileAgent
  /\ sessions[2].userId = "u1"
  /\ sessions[2].userAgent = DesktopAgent
  /\ \E r \in dailyStats : r.totalLogins = 2

Completed(p, op) ==
  pc[p] = "idle" /\ ret.op = op /\ ret.status = "ok"

\* C10: from the empty store, after u1's login with a mobile hint getStats
\* reports 1 online, 1 mobile, 0 desktop, 1 login, 1 mobile login and 1
\* unique user today; after u1's second login the same day with a desktop
\* hint only the desktop session is active and getStats reports 1 online,
\* 1 desktop, 2 logins and 1 unique user today.
C10_LoginScenario ==
  /\ (Completed("p1", "recordLogin") /\ FirstLoginStore)
       => sessions[1].isActive
  /\ ( /\ Completed("p1", "getStats")
       /\ FirstLoginStore
       /\ sessions[1].isActive
       /\ dailyStats # {} )
       => /\ ret.stats.currentOnline = 1
          /\ ret.stats.currentMobile = 1
          /\ ret.stats.currentDesktop = 0
          /\ ret.stats.todayLogins = 1
          /\ ret.stats.todayMobile = 1
          /\ ret.stats.todayUniqueUsers = 1
  /\ (Completed("p1", "recordLogin") /\ SecondLoginStore)
       => /\ sessions[2].isActive
          /\ ~sessions[1].isActive
          /\ ActiveCount(sessions, "u1") = 1
  /\ ( /\ Completed("p1", "getStats")
       /\ SecondLoginStore
       /\ sessions[2].isActive )
       => /\ ~sessions[1].isActive
          /\ ret.stats.currentOnline = 1
          /\ ret.stats.currentDesktop = 1
          /\ ret.stats.todayLogins = 2
          /\ ret.stats.todayUniqueUsers = 1

\* getStats has answered after u1's second login of the day
C10_Witness ==
  /\ Completed("p1", "getStats")
  /\ SecondLoginStore
  /\ sessions[2].isActive
  /\ sessions[2].loginAt > sessions[1].loginAt


\* C11: every snapshot returned by getStats has currentOnline equal to the
\* number of sessions that were active when the store read them, and
\* currentMobile + currentDesktop = currentOnline.
C11_OnlineCountsAtRead ==
  [][ \A p \in Procs :
        /\ (pc[p] = "stats_sessions" /\ pc'[p] = "stats_daily") =>
             loc'[p].online.currentOnline =
               Cardinality({ i \in 1..Len(sessions) : sessions[i].isActive })
        /\ (pc[p] = "stats_return" /\ pc'[p] = "idle") =>
             /\ ret'.op = "getStats"
             /\ ret'.status = "ok"
             /\ ret'.stats.currentOnline = loc[p].online.currentOnline
             /\ ret'.stats.currentMobile + ret'.stats.currentDesktop
                  = ret'.stats.currentOnline ]_vars

\* a query returned one online mobile user while a closed session was stored
C11_Witness ==
  /\ ret.op = "getStats"
  /\ ret.status = "ok"
  /\ ret.stats.currentOnline = 1
  /\ ret.stats.currentMobile = 1
  /\ Len(sessions) = 2
  /\ \E i \in 1..Len(sessions) : ~sessions[i].isActive

\* C12: getStats is a pure read: none of its steps changes a Session or a
\* DailyStat, so it never deactivates a session itself.
C12_GetStatsPureRead ==
  [][ \A p \in Procs :
        ( \/ pc[p] = "idle" /\ pc'[p] = "stats_sessions"
          \/ pc[p] = "stats_sessions" /\ pc'[p] # pc[p]
          \/ pc[p] = "stats_daily" /\ pc'[p] # pc[p]
          \/ pc[p] = "stats_return" /\ pc'[p] # pc[p] )
        => sessions' = sessions /\ dailyStats' = dailyStats ]_vars

\* a query returned over a store that holds an active session, a closed one
\* and a DailyStat
C12_Witness ==
  /\ ret.op = "getStats"
  /\ ret.status = "ok"
  /\ \E i, j \in 1..Len(sessions) : sessions[i].isActive /\ ~sessions[j].isActive
  /\ dailyStats # {}
  /\ Quiescent

\* C13: when no DailyStat exists for the date of the query, getStats succeeds
\* and reports todayLogins, todayMobile, todayDesktop and todayUniqueUsers as
\* 0; when one exists they equal its totalLogins, mobileLogins, desktopLogins
\* and the length of uniqueUserIds.
C13_TodayCounts ==
  [][ \A p \in Procs :
        /\ (pc[p] = "stats_daily" /\ pc'[p] = "stats_return") =>
             IF \A r \in dailyStats : r.date # loc[p].today
             THEN loc'[p].existing = None
             ELSE \E r \in dailyStats :
                    r.date = loc[p].today /\ loc'[p].existing = r
        /\ (pc[p] = "stats_return" /\ pc'[p] = "idle") =>
             /\ ret'.op = "getStats"
             /\ ret'.status = "ok"
             /\ IF loc[p].existing = None
                THEN /\ ret'.stats.todayLogins = 0
                     /\ ret'.stats.todayMobile = 0
                     /\ ret'.stats.todayDesktop = 0
                     /\ ret'.stats.todayUniqueUsers = 0
                ELSE /\ ret'.stats.todayLogins = loc[p].existing.totalLogins
                     /\ ret'.stats.todayMobile = loc[p].existing.mobileLogins
                     /\ ret'.stats.todayDesktop = loc[p].existing.desktopLogins
                     /\ ret'.stats.todayUniqueUsers =
                          Len(loc[p].existing.uniqueUserIds) ]_vars

\* a query returned zero today counts while a session was already online and
\* its DailyStat was not yet written
C13_Witness ==
  /\ ret.op = "getStats"
  /\ ret.status = "ok"
  /\ dailyStats = {}
  /\ ret.stats.currentOnline = 1
  /\ ret.stats.todayLogins = 0
  /\ ret.stats.todayUniqueUsers = 0


\* C18: in every reachable state every DailyStat has at most as many entries
\* in uniqueUserIds as totalLogins, under every interleaving of recordLogin
\* calls.
C18_UniqueUsersAtMostLogins ==
  \A r \in dailyStats : Len(r.uniqueUserIds) <= r.totalLogins

\* two users logged in once each: the bound is met with equality
C18_Witness ==
  /\ Quiescent
  /\ \E r \in dailyStats :
       /\ r.totalLogins = 2
       /\ Len(r.uniqueUserIds) = 2
       /\ Includes(r.uniqueUserIds, "u1")
       /\ Includes(r.uniqueUserIds, "u2")


\* C19: in every reachable state every Session has lastSeen >= loginAt, under
\* any sequence of recordLogin and heartbeat calls with a non-decreasing clock.
C19_LastSeenNotBeforeLogin ==
  \A i \in 1..Len(sessions) : sessions[i].lastSeen >= sessions[i].loginAt

\* C20: lastSeen of a session never decreases while the session is active:
\* across any two successive states, also when two heartbeat calls of one user
\* read the clock and then write in the opposite order, the stored lastSeen of
\* an active session is at least its previous value.
C20_LastSeenMonotonic ==
  [][ \A i \in 1..Len(sessions) :
        (sessions[i].isActive /\ sessions'[i].isActive) =>
          sessions'[i].lastSeen >= sessions[i].lastSeen ]_vars


\* C14: a GET /stats request whose x-stats-key header is absent or differs
\* from the configured secret, also when no secret is configured, is answered
\* unauthorized and touches no core state: it issues no store call, so no
\* sweep runs and no Session or DailyStat is read or changed.
C14_UnauthorizedTouchesNothing ==
  [][ \A p \in Procs :
        ( /\ pc[p] = "ctl_guard"
          /\ pc'[p] # "ctl_guard"
          /\ (~loc[p].statsKey.defined \/ loc[p].statsKey # secret) )
        => /\ pc'[p] = "idle"
           /\ ret'.op = "GET /stats"
           /\ ret'.status = "unauthorized"
           /\ sessions' = sessions
           /\ dailyStats' = dailyStats ]_vars

\* with no secret configured a request was answered unauthorized while an
\* active stale session, which a sweep would have closed, is still active
C14_Witness ==
  /\ ~secret.defined
  /\ ret.op = "GET /stats"
  /\ ret.status = "unauthorized"
  /\ Quiescent
  /\ \E i \in 1..Len(sessions) :
       sessions[i].isActive /\ sessions[i].lastSeen < now - StatsSweepMinutes

\* C15: an authorized GET /stats request runs exactly one sweep with
\* threshold 15 minutes, and the sweep completes before the snapshot is
\* computed: the sessions that were stale when the sweep executed are closed
\* by it and are not counted in the returned currentOnline.
C15_SweepBeforeSnapshot ==
  [][ \A p \in Procs :
        /\ (pc'[p] = "ctl_sessions" /\ pc[p] # "ctl_sessions") =>
             pc[p] = "ctl_stats"
        /\ (pc'[p] = "ctl_stats" /\ pc[p] # "ctl_stats") =>
             /\ pc[p] = "ctl_expire"
             /\ loc[p].cutoff = now - 15
             /\ \A i \in 1..Len(sessions) :
                  (sessions[i].isActive /\ sessions[i].lastSeen < now - 15)
                    => ~sessions'[i].isActive /\ i \in loc'[p].swept
        /\ (pc[p] \in {"ctl_guard", "ctl_stats", "ctl_sessions", "ctl_daily",
                      "ctl_return"}
              /\ pc'[p] # pc[p]) => sessions' = sessions
        /\ (pc[p] = "ctl_sessions" /\ pc'[p] = "ctl_daily") =>
             loc'[p].online.currentOnline =
               Cardinality({ i \in 1..Len(sessions) :
                               sessions[i].isActive /\ i \notin loc[p].swept })
        /\ (pc[p] = "ctl_return" /\ pc'[p] = "idle" /\ ret'.status = "ok") =>
             /\ ret'.op = "GET /stats"
             /\ ret'.stats.currentOnline = loc[p].online.currentOnline ]_vars

\* a request has swept one stale session and then counted one online session
C15_Witness ==
  \E p \in Procs :
    /\ pc[p] = "ctl_daily"
    /\ Cardinality(loc[p].swept) = 1
    /\ loc[p].online.currentOnline = 1
    /\ Len(sessions) = 2

\* C16: when a scheduled sweep fails because the store call fails, the
\* failure does not leave the sweeper's handler: the handler never rejects.
C16_FailedSweepNotPropagated ==
  ~(ret.op = "handleExpireSessions" /\ ret.status = "error")


\* C17: when the bot's read of the latest count fails, the displayed status
\* is replaced by a clearly marked "unreachable" state: it neither stays the
\* previous snapshot nor becomes default or zero data.
C17_FailedReadShowsUnreachable ==
  [][ \A t \in BotTasks :
        (task[t].pc = "us_read" /\ task'[t].pc = "idle") =>
          bot'.status.text = "unreachable" ]_vars


C21_Substrings ==
  { <<"m","o","b","i","l","e">>, <<"a","n","d","r","o","i","d">>,
    <<"i","p","h","o","n","e">>, <<"i","p","a","d">>,
    <<"t","a","b","l","e","t">>, <<"p","h","o","n","e">> }

C21_Lower(s) == [ i \in 1..Len(s) |-> ToLower(s[i]) ]

C21_HasSubstring(s) ==
  \E w \in C21_Substrings :
    \E i \in 1..(Len(s) - Len(w) + 1) :
      SubSeq(C21_Lower(s), i, i + Len(w) - 1) = w

\* C21: the classification is mobile exactly when the hint contains, in any
\* letter case, one of mobile, android, iphone, ipad, tablet, phone, and
\* desktop for every other input, the empty string and a missing hint included.
C21_DeviceClassification ==
  \A p \in Procs :
    loc[p].deviceType # "" =>
      /\ loc[p].deviceType \in {"mobile", "desktop"}
      /\ loc[p].deviceType = "mobile" <=>
           (loc[p].hint.defined /\ C21_HasSubstring(loc[p].hint.text))

\* a mixed-case pattern inside a longer text was classified mobile
C21_Witness ==
  /\ loc["p1"].hint = Hint(<<"x","i","P","a","d","/">>)
  /\ loc["p1"].deviceType = "mobile"


\* C22: the value returned by expireInactiveSessions is the number of
\* sessions whose isActive the call changed from true to false; it is 0 when
\* no active session is stale.
C22_ExpireReturnsChangedCount ==
  [][ \A p \in Procs :
        SweepDone(p) =>
          /\ ret'.op = "expireInactiveSessions"
          /\ ret'.count =
               Cardinality({ i \in 1..Len(sessions) :
                               sessions[i].isActive /\ ~sessions'[i].isActive })
          /\ (\A i \in 1..Len(sessions) :
                ~(sessions[i].isActive /\ sessions[i].lastSeen < loc[p].cutoff))
             => ret'.count = 0 ]_vars

\* a sweep returned 1 over a store that also holds a session that was already
\* closed and last seen before the cutoff
C22_Witness ==
  /\ Quiescent
  /\ ret.op = "expireInactiveSessions"
  /\ ret.status = "ok"
  /\ ret.count = 1
  /\ Len(sessions) = 2
  /\ \A i \in 1..Len(sessions) :
       ~sessions[i].isActive /\ sessions[i].lastSeen = now - 16


\* C23: recordLogout(u) whose update finds no active session of u (u never
\* logged in, already logged out or already expired) completes without error
\* and changes nothing in the store.
C23_LogoutWithoutSession ==
  [][ \A p \in Procs :
        ( /\ pc[p] = "logout_update"
          /\ pc'[p] = "idle"
          /\ \A i \in 1..Len(sessions) :
               sessions[i].userId = loc[p].userId => ~sessions[i].isActive )
        => /\ ret'.op = "recordLogout"
           /\ ret'.status = "ok"
           /\ sessions' = sessions
           /\ dailyStats' = dailyStats ]_vars

\* a logout completed for a user whose only session is closed and stale
C23_Witness ==
  /\ Quiescent
  /\ ret.op = "recordLogout"
  /\ ret.status = "ok"
  /\ Len(sessions) = 1
  /\ ~sessions[1].isActive
  /\ sessions[1].lastSeen < now - 1


\* the token a request presents: x-api-key, or authorization when x-api-key
\* is missing or empty
C24_Presented(r) ==
  IF r.apiKey.defined /\ r.apiKey.text # "" THEN r.apiKey ELSE r.authorization

C24_Configured == apiToken.defined /\ apiToken.text # ""

C24_BadToken(r) ==
  \/ ~C24_Presented(r).defined
  \/ C24_Presented(r).text = ""
  \/ C24_Presented(r) # apiToken

C24_Handled(t) == task[t].pc = "api_mw" /\ task'[t].pc # "api_mw"

\* a route handler has run: the count route has answered 400 or called the
\* bot, or the test route has answered
C24_ReachedHandler(t) ==
  \/ task'[t].pc = "hu_insert"
  \/ task'[t].result \in {"400", "200"}

\* C24: token protection is optional: with BACKEND_API_TOKEN configured every
\* request under /api/k3i whose x-api-key (or authorization) header is missing
\* or different is answered 401 and never reaches a route handler, so it
\* inserts no user count and changes no status; with no token configured
\* every request passes through.
C24_TokenProtection ==
  [][ \A t \in BotTasks :
        C24_Handled(t) =>
          IF C24_Configured
          THEN C24_BadToken(task[t].req) =>
                 /\ task'[t].result = "401"
                 /\ ~C24_ReachedHandler(t)
                 /\ userCounts' = userCounts
                 /\ bot' = bot
          ELSE task'[t].result # "401" ]_vars

\* the request is answered before the token check: an OPTIONS request by the
\* cors middleware when ENABLE_CORS is set, otherwise a request whose body
\* does not parse by the error handler
C24_Preflight(r) == enableCORS /\ r.method = "OPTIONS"

C24_Unparsed(r) == ~C24_Preflight(r) /\ ~r.bodyOk

\* the method and path of the request match a route
C24_Routed(r) ==
  \/ r.method = "POST" /\ r.route = "/api/k3i/user-count"
  \/ r.method = "GET" /\ r.route = "/api/k3i/test"

\* C24, amended: the token check comes after the CORS middleware and body
\* parsing.  With a token configured, a request whose presented token is
\* missing or different never reaches a route handler, inserts no user count
\* and changes no status; it is answered 204 by the cors middleware when it
\* is an OPTIONS request and ENABLE_CORS is set, otherwise 500 by the error
\* handler when its body does not parse, otherwise 401.  The token check
\* rejects no other request: with no token configured, or with the
\* configured token presented, a request that is not answered by the cors
\* middleware or the error handler is never answered 401 and reaches the
\* handler of its route, or the 404 handler when it matches no route.
C24_TokenProtectionAfterBodyParsing ==
  [][ \A t \in BotTasks :
        C24_Handled(t) =>
          LET r == task[t].req
              rejected == C24_Configured /\ C24_BadToken(r)
          IN /\ userCounts' = userCounts
             /\ bot' = bot
             /\ rejected => ~C24_ReachedHandler(t)
             /\ C24_Preflight(r) => task'[t].result = "204"
             /\ C24_Unparsed(r) => task'[t].result = "500"
             /\ (~C24_Preflight(r) /\ r.bodyOk) =>
                  IF rejected THEN task'[t].result = "401"
                  ELSE IF C24_Routed(r) THEN C24_ReachedHandler(t)
                  ELSE task'[t].result = "404" ]_vars

\* with a token configured and ENABLE_CORS set, a request was answered 401
\* while the table held one count and the bot showed it
C24_Witness ==
  /\ apiToken = Str("k1")
  /\ enableCORS
  /\ task["t1"].pc = "idle" /\ task["t1"].result = "401"
  /\ Len(userCounts) = 1
  /\ bot.status.text = "users online"


\* C25: each completed recordLogin(u, hint, ip) applies exactly one update to
\* the DailyStat of its date: an absent record is created with totalLogins 1,
\* the counter of the classified device 1, the other counter 0 and
\* uniqueUserIds <<u>>; a present record gets totalLogins and the matching
\* counter increased by 1, the other counter unchanged, and u appended to
\* uniqueUserIds only if it is not already a member.
C25_OneAggregatorUpdate ==
  [][ \A p \in Procs :
        /\ (pc[p] \in {"login_deactivate", "login_loginAt", "login_lastSeen",
                       "login_insert", "login_find"} /\ pc'[p] # pc[p])
             => dailyStats' = dailyStats
        /\ (pc[p] = "login_stat" /\ pc'[p] = "idle" /\ ret'.status = "ok") =>
             LET u == loc[p].userId
                 d == loc[p].today
                 m == IF loc[p].deviceType = "mobile" THEN 1 ELSE 0
             IN IF \A r \in dailyStats : r.date # d
                THEN dailyStats' = dailyStats \cup
                       { [ date |-> d, totalLogins |-> 1, mobileLogins |-> m,
                           desktopLogins |-> 1 - m, uniqueUserIds |-> <<u>> ] }
                ELSE \E r \in dailyStats :
                       /\ r.date = d
                       /\ dailyStats' = (dailyStats \ {r}) \cup
                            { [ date |-> d,
                                totalLogins |-> r.totalLogins + 1,
                                mobileLogins |-> r.mobileLogins + m,
                                desktopLogins |-> r.desktopLogins + (1 - m),
                                uniqueUserIds |->
                                  IF Includes(r.uniqueUserIds, u)
                                  THEN r.uniqueUserIds
                                  ELSE Append(r.uniqueUserIds, u) ] } ]_vars


\* C26: heartbeat(u) changes only lastSeen of the sessions of u that are
\* active when its update executes: isActive, loginAt and deviceType of every
\* session stay, inactive sessions and sessions of other users are untouched
\* (a heartbeat after logout or expiry revives nothing), and with no active
\* session of u it changes nothing and completes without error.
C26_HeartbeatFrame ==
  [][ \A p \in Procs :
        (pc[p] = "heartbeat_update" /\ pc'[p] = "idle") =>
          /\ ret'.op = "heartbeat"
          /\ ret'.status = "ok"
          /\ dailyStats' = dailyStats
          /\ Len(sessions') = Len(sessions)
          /\ \A i \in 1..Len(sessions) :
               IF sessions[i].userId = loc[p].userId /\ sessions[i].isActive
               THEN sessions'[i] = [sessions[i] EXCEPT !.lastSeen = loc[p].lastSeen]
               ELSE sessions'[i] = sessions[i] ]_vars

\* a heartbeat of u1 refreshed the active session of u1 and left a closed,
\* stale session of u1 as it was
C26_Witness ==
  /\ Quiescent
  /\ ret.op = "heartbeat"
  /\ ret.status = "ok"
  /\ \E i, j \in 1..Len(sessions) :
       /\ sessions[i].userId = "u1" /\ sessions[i].isActive
       /\ sessions[i].lastSeen = now
       /\ sessions[j].userId = "u1" /\ ~sessions[j].isActive
       /\ sessions[j].lastSeen = now - 16


C27_SessionsAfterLogin(p) ==
  LET u == loc[p].userId
      n == Len(sessions')
  IN /\ n >= 1
     /\ sessions'[n].userId = u
     /\ sessions'[n].isActive
     /\ sessions'[n].deviceType = loc[p].deviceType
     /\ (sessions'[n].deviceType = "mobile") <=>
          C21_HasSubstring(sessions'[n].userAgent)
     /\ \A i \in 1..(n - 1) : sessions'[i].userId = u => ~sessions'[i].isActive

\* C27: after a completed recordLogin(u) that overlaps no other operation on
\* u, u has exactly one active Session, the newly created one, with the device
\* type classified from the hint; every earlier Session of u is inactive; and
\* the new Session has loginAt equal to lastSeen.
C27_LoginLeavesOneSession ==
  [][ \A p \in Procs :
        (pc[p] = "login_stat" /\ pc'[p] = "idle" /\ ret'.status = "ok") =>
          /\ C27_SessionsAfterLogin(p)
          /\ sessions'[Len(sessions')].loginAt = sessions'[Len(sessions')].lastSeen
    ]_vars


\* C28: each Sweeper tick issues exactly one expireInactive call with
\* threshold 15 minutes and keeps no state between ticks: a tick starts from
\* nothing but the clock, whatever the previous tick returned, and ends after
\* its single store update, whether that update succeeded or failed.
C28_OneSweepPerTick ==
  [][ \A p \in Procs :
        /\ (pc[p] = "idle" /\ pc'[p] = "cron_expire") =>
             /\ loc'[p] = [NoLoc EXCEPT !.cutoff = now - 15]
             /\ sessions' = sessions
        /\ (pc[p] = "cron_expire" /\ pc'[p] # "cron_expire") =>
             /\ pc'[p] = "idle"
             /\ ret'.op = "handleExpireSessions"
             /\ \/ ret'.status = "error" /\ sessions' = sessions
                \/ /\ ret'.status = "ok"
                   /\ sessions' = expireUpdate(sessions, loc[p].cutoff)
    ]_vars

\* a tick is in flight after a failed tick, with a stale Session to close
C28_Witness ==
  /\ pc["p1"] = "cron_expire"
  /\ ret.op = "handleExpireSessions"
  /\ ret.status = "error"
  /\ \E i \in 1..Len(sessions) : isStale(sessions[i], loc["p1"].cutoff)


C29_SameRecord(a, b) ==
  /\ a.userId = b.userId
  /\ a.deviceType = b.deviceType
  /\ a.ipAddress = b.ipAddress
  /\ a.userAgent = b.userAgent
  /\ a.loginAt = b.loginAt

C29_ReadOrCloseSteps ==
  { "logout_update", "heartbeat_update", "expire_update",
    "stats_sessions", "stats_daily", "stats_return" }

\* C29: no core operation deletes a record. Every Session and every DailyStat
\* that exists stays; the only step that adds a Session is the create of a
\* recordLogin, which each completed recordLogin passes exactly once and which
\* adds exactly one; recordLogout, heartbeat, expireInactive and getStats add
\* none; totalLogins, mobileLogins and desktopLogins never decrease.
C29_RecordsOnlyGrow ==
  [][ /\ Len(sessions') >= Len(sessions)
      /\ \A i \in 1..Len(sessions) : C29_SameRecord(sessions[i], sessions'[i])
      /\ \A r \in dailyStats :
           \E q \in dailyStats' :
             /\ q.date = r.date
             /\ q.totalLogins >= r.totalLogins
             /\ q.mobileLogins >= r.mobileLogins
             /\ q.desktopLogins >= r.desktopLogins
      /\ Len(sessions') # Len(sessions) =>
           /\ Len(sessions') = Len(sessions) + 1
           /\ \E p \in Procs : pc[p] = "login_insert" /\ pc'[p] = "login_find"
      /\ \A p \in Procs :
           /\ (pc[p] = "login_insert" /\ pc'[p] = "login_find") =>
                Len(sessions') = Len(sessions) + 1
           /\ (pc[p] # "login_insert" /\ pc'[p] = "login_insert") =>
                pc[p] = "login_lastSeen"
           /\ (pc[p] # "login_find" /\ pc'[p] = "login_find") =>
                pc[p] = "login_insert"
           /\ (pc[p] # "login_stat" /\ pc'[p] = "login_stat") =>
                pc[p] = "login_find"
           /\ (pc[p] # "idle" /\ pc'[p] = "idle" /\ ret'.op = "recordLogin"
                 /\ ret'.status = "ok") => pc[p] = "login_stat"
           /\ (pc[p] \in C29_ReadOrCloseSteps /\ pc'[p] # pc[p]) =>
                /\ Len(sessions') = Len(sessions)
                /\ { r.date : r \in dailyStats' } = { r.date : r \in dailyStats }
    ]_vars

\* two logins were recorded and both Sessions, now closed, are still stored
C29_Witness ==
  /\ Quiescent
  /\ Len(sessions) = 2
  /\ \A i \in 1..Len(sessions) : ~sessions[i].isActive
  /\ \E r \in dailyStats : r.totalLogins = 2


\* C30: the DailyStat that a recordLogin creates or updates is the one of the
\* calendar date of the loginAt of the Session the same call created, also
\* when the clock crosses a day boundary during the call.
C30_StatDateIsLoginDate ==
  [][ \A p \in Procs :
        (pc[p] = "login_stat" /\ pc'[p] = "idle" /\ ret'.status = "ok") =>
          \A r \in dailyStats' \ dailyStats :
            r.date = sessions[Len(sessions)].loginAt \div 1440
    ]_vars


\* no Session has been closed: every login so far left its Session active,
\* so the online counts of any earlier state count exactly the Sessions that
\* existed then
C31_NoSessionClosed ==
  \A i \in 1..Len(sessions) : sessions[i].isActive

\* C31: a snapshot returned by getStats is the view of one single store state
\* that existed during the call: its today total never includes a login whose
\* Session its online counts do not include. While no Session has been closed
\* every counted login has an active Session, so in any single state the
\* today total is at most the online total, and the snapshot must show that.
C31_SnapshotOfOneState ==
  [][ \A p \in Procs :
        ( /\ pc[p] = "stats_return"
          /\ pc'[p] = "idle"
          /\ ret'.status = "ok"
          /\ C31_NoSessionClosed ) =>
          /\ ret'.stats.todayLogins <= ret'.stats.currentOnline
          /\ ret'.stats.todayMobile <= ret'.stats.currentMobile
          /\ ret'.stats.todayDesktop <= ret'.stats.currentDesktop
    ]_vars


C32_UserSteps ==
  { "login_deactivate", "login_loginAt", "login_lastSeen", "login_insert",
    "login_find", "login_stat", "logout_update", "heartbeat_update" }

\* C32: recordLogout, heartbeat and expireInactive leave every DailyStat
\* unchanged, and recordLogin(u), recordLogout(u) and heartbeat(u) leave every
\* Session of every other user unchanged (and add no Session of another user).
C32_OperationFrames ==
  [][ \A p \in Procs :
        /\ ( /\ pc[p] \in {"logout_update", "heartbeat_update", "expire_update"}
             /\ pc'[p] # pc[p] ) => dailyStats' = dailyStats
        /\ (pc[p] \in C32_UserSteps /\ pc'[p] # pc[p]) =>
             /\ Len(sessions') >= Len(sessions)
             /\ \A i \in 1..Len(sessions) :
                  sessions[i].userId # loc[p].userId =>
                    sessions'[i] = sessions[i]
             /\ \A i \in (Len(sessions) + 1)..Len(sessions') :
                  sessions'[i].userId = loc[p].userId
    ]_vars

\* both users have a Session and a counted login; u1 has just logged in
\* again while the Session of u2 is still active
C32_Witness ==
  /\ Quiescent
  /\ ret.op = "recordLogin"
  /\ ret.status = "ok"
  /\ Len(sessions) = 2
  /\ sessions[1].userId = "u2" /\ sessions[1].isActive
  /\ sessions[2].userId = "u1" /\ sessions[2].isActive
  /\ \E r \in dailyStats : r.totalLogins = 2


\* the updateStatus executions between their entry and their exit
C33_Running == { t \in BotTasks : task[t].pc \in {"us_read", "us_set"} }

\* C33: at most one updateStatus execution is between its entry and its exit,
\* and isUpdatingStatus is set exactly while one is: no execution starts while
\* the flag is set, and the flag is reset whenever an execution ends, on
\* success, on the no-data return and on error.
C33_OneUpdateStatus ==
  /\ Cardinality(C33_Running) <= 1
  /\ bot.isUpdatingStatus <=> C33_Running # {}

\* after a no-data execution and a failed one the flag was reset each time
\* and the next tick has entered and read
C33_Witness ==
  /\ bot.status = NoDataStatus
  /\ userCounts = <<>>
  /\ task["t1"].pc = "idle"
  /\ task["t1"].result = "failed"
  /\ task["t2"].pc = "us_set"
  /\ bot.isUpdatingStatus


\* the last call of handleUserCountUpdate, made with n, has succeeded and no
\* later one has been made (in SpecBotFair the counts are pushed by t1)
C34_Pushed(n) ==
  /\ task["t1"].pc = "idle"
  /\ task["t1"].result = "ok"
  /\ task["t1"].userCount = n

C34_Shows(n) ==
  /\ bot.status.text = "users online"
  /\ bot.status.groups = Groups(n)

\* C34 as stated: after handleUserCountUpdate(n) has succeeded and no later
\* count is inserted, while the bot stays ready and timer ticks keep firing,
\* the status eventually shows n and then keeps showing n.
C34_StatusShowsPushedCount ==
  \A n \in { m \in UserCountInputs : ValidUserCount(m) } :
    <>[](bot.isReady /\ C34_Pushed(n)) => <>[]C34_Shows(n)

\* C34: the displayed status eventually shows the latest stored user count:
\* after handleUserCountUpdate(n) has succeeded and no later count is
\* inserted, while the bot stays ready, timer ticks keep firing and the row
\* of n stays stored, the status eventually shows n and then keeps showing
\* n; whenever the table stops changing at k rows the status settles on the
\* count of the row inserted last; and once the nightly cleanup has emptied
\* the table the status settles on "No data available".
C34_StatusShowsLatestStoredCount ==
  /\ \A n \in { m \in UserCountInputs : ValidUserCount(m) } :
       <>[](bot.isReady /\ C34_Pushed(n) /\ userCounts # <<>>) => <>[]C34_Shows(n)
  /\ \A k \in 1..(MaxRows + 1) :
       <>[](bot.isReady /\ Len(userCounts) = k) =>
         <>[](Len(userCounts) = k /\ C34_Shows(userCounts[k].user_count))
  /\ <>[](bot.isReady /\ userCounts = <<>>) => <>[](bot.status = NoDataStatus)

\* 0 and then 3 were pushed within one clock unit, and a timer-driven write
\* of the 0 read before the second push has landed after the manual write
C34_Witness ==
  /\ bot.isReady
  /\ C34_Pushed(3)
  /\ Len(userCounts) = 2
  /\ userCounts[1].user_count = 0
  /\ userCounts[2].user_count = 3
  /\ userCounts[1].timestamp = userCounts[2].timestamp
  /\ task["t2"].pc = "idle"
  /\ bot.status.text = "users online"
  /\ bot.status.groups = Groups(0)


\* a count that is missing, not an integer or negative
C35_Bad(v) == v.type # "number" \/ v.halves % 2 # 0 \/ v.halves < 0

C35_NothingStoredOrShown == userCounts' = userCounts /\ bot' = bot

\* C35: a user count that is missing, not an integer or negative is never
\* stored and never displayed: both count routes answer 400 without calling
\* the bot handler, and handleUserCountUpdate itself returns success = false
\* without inserting a row or setting the status; a count of 0 is accepted.
\* Every row that is stored and every count that is shown comes from a
\* request whose count is a non-negative integer.
C35_BadCountsRejected ==
  [][ /\ \A t \in BotTasks :
           /\ (task[t].pc = "cnt_route" /\ task'[t].pc # "cnt_route") =>
                IF C35_Bad(task[t].req.userCount)
                THEN /\ task'[t].pc = "idle"
                     /\ task'[t].result = "400"
                     /\ C35_NothingStoredOrShown
                ELSE /\ task'[t].pc = "hu_insert"
                     /\ task'[t].userCount = task[t].req.userCount.halves \div 2
           /\ ( /\ task[t].pc = "idle"
                /\ task'[t] # task[t]
                /\ task'[t].req # None
                /\ task'[t].req.route = "handler" ) =>
                IF C35_Bad(task'[t].req.userCount)
                THEN /\ task'[t].pc = "idle"
                     /\ task'[t].result = "failed"
                     /\ C35_NothingStoredOrShown
                ELSE /\ task'[t].pc = "hu_insert"
                     /\ task'[t].userCount = task'[t].req.userCount.halves \div 2
      /\ userCounts' # userCounts =>
           \E t \in BotTasks :
             /\ task[t].pc = "hu_insert"
             /\ ~C35_Bad(task[t].req.userCount)
             /\ userCounts' =
                  Append(userCounts,
                         [ user_count |-> task[t].req.userCount.halves \div 2,
                           timestamp |-> now ])
      /\ (bot'.status # bot.status /\ bot'.status.text = "users online") =>
           \E t \in BotTasks :
             \/ /\ task[t].pc = "hu_set"
                /\ ~C35_Bad(task[t].req.userCount)
                /\ bot'.status.groups =
                     Groups(task[t].req.userCount.halves \div 2)
             \/ /\ task[t].pc = "us_set"
                /\ \E i \in 1..Len(userCounts) :
                     bot'.status.groups = Groups(userCounts[i].user_count)
    ]_vars

\* a count of 0 was stored and is shown, and a POST with the string "5" was
\* answered 400
C35_Witness ==
  /\ \E i \in 1..Len(userCounts) : userCounts[i].user_count = 0
  /\ bot.status.text = "users online"
  /\ bot.status.groups = <<0>>
  /\ task["t1"].pc = "idle"
  /\ task["t1"].result = "400"
  /\ task["t1"].req.userCount = JsString("5")


\* C36: after any sequence of startStatusUpdateLoop and close calls at most
\* one status-update timer is scheduled, and it is the one the handler holds:
\* starting the loop again clears the previous timer, close leaves none
\* scheduled, and a timer-driven updateStatus execution begins only while a
\* timer is held, so none begins after close has cleared it (until the loop
\* is started again).
C36_AtMostOneTimer ==
  [][ /\ Cardinality(bot'.timers) <= 1
      /\ bot'.timers \subseteq {bot'.statusUpdateTimer}
      /\ bot'.statusUpdateTimer = 0 => bot'.timers = {}
      /\ \A t \in BotTasks :
           /\ (task[t].pc = "idle" /\ task'[t].pc \in {"cl_destroy", "cl_database"}) =>
                bot'.statusUpdateTimer = 0 /\ bot'.timers = {}
           /\ (task[t].pc = "idle" /\ task'[t].pc = "us_read" /\ bot.isReady) =>
                bot.statusUpdateTimer # 0
    ]_vars

\* the loop was started twice and then closed while an execution was running
C36_Witness ==
  /\ bot.nextTimer = 3
  /\ bot.timers = {}
  /\ bot.statusUpdateTimer = 0
  /\ bot.closed
  /\ \E t \in BotTasks : task[t].pc = "us_read"

====
